---- MODULE Spec2Model ----
(***************************************************************************)
(* Outline editor of the daily-focus-list app: the ListItem tree, the      *)
(* ListEditor mutations and key handlers, the NoteEditor wiring and the    *)
(* useHistory undo/redo hook.                                              *)
(*                                                                         *)
(* A ListItem is a record [id, text, level] that carries a children field  *)
(* only when the JavaScript object has a children array (possibly empty);  *)
(* `children: undefined` and a missing key are the same record, as they    *)
(* are the same JSON.  text is a sequence of characters.  An id minted as  *)
(* item-<Date.now()> is the clock value (positive); the ids of a note      *)
(* seeded by the server (note-<uuid>) are negative numbers.                *)
(***************************************************************************)
EXTENDS Integers, Sequences, FiniteSets, TLC

VARIABLES
    variant,        \* which ListEditor source drives the editor: "v2" | "v3"
    items,          \* ListEditor prop `items` (= note.content of NoteEditor)
    dom,            \* itemRefs: id -> textContent of the item's editable element
    hist,           \* useHistory state: [past, present, future]
    isUndoRedoRef,  \* useHistory: isUndoRedoRef.current
    resetPending,   \* a setTimeout(.., 0) that clears isUndoRedoRef is pending
    pendingSave,    \* content last handed to onNoteChange and not yet refetched
    pruneTimers,    \* pending handleBlur timers: set of [id, snapshot]
    now,            \* Date.now()
    steps,          \* number of user events so far
    last,           \* record of the last editor event (observation only)
    trail,          \* the last history-hook calls (observation only)
    home,           \* Home: saveStatus, the saveTimeout timer, PATCH requests in flight
    focusText,      \* NoteEditor: the focusText state of the focus-text input
    storage,        \* server, MemStorage: template, dailyNotes, uuids handed out
    heap,           \* the ListItem objects by address (maintained by SpecAlias only)
    refs,           \* SpecAlias: the arrays `items` and past/present/future point to
    waiters,        \* ListEditor: the pending and settled waitForElement promises
    selection       \* the editable surface, the saved caret and where it was restored

vars == <<variant, items, dom, hist, isUndoRedoRef, resetPending, pendingSave,
          pruneTimers, now, steps, last, trail, home, focusText, storage, heap, refs,
          waiters, selection>>

\* the state outside the list editor and its history hook, and the object
\* identities that only SpecAlias follows (the other specifications work on
\* the values of the trees)
aliasVars == <<heap, refs>>
domVars == <<waiters, selection>>
pageVars == <<home, focusText, storage, aliasVars, domVars>>

(***************************************************************************)
(* Bounds of the model.                                                    *)
(***************************************************************************)
MaxSteps == 2          \* user events in one behaviour of the editor
MaxLen == 1            \* longest text typed into one item
MaxHistorySize == 2    \* the maxHistorySize option the hook is run with

MinLevel == 0
MaxLevel == 5
Chars == {"a", " "}

(***************************************************************************)
(* ListItem helpers.                                                       *)
(***************************************************************************)
Item(id, text, level) == [id |-> id, text |-> text, level |-> level]

HasChildren(it) == "children" \in DOMAIN it

\* item.children, or the empty sequence when the field is undefined
ChildrenOf(it) == IF HasChildren(it) THEN it.children ELSE <<>>

\* { ...item, children: ch }
WithChildren(it, ch) ==
    [id |-> it.id, text |-> it.text, level |-> it.level, children |-> ch]

\* { ...item, children: undefined }
WithoutChildren(it) == [id |-> it.id, text |-> it.text, level |-> it.level]

\* { ...item, ...updates }
Merge(it, updates) ==
    [f \in DOMAIN it |-> IF f \in DOMAIN updates THEN updates[f] ELSE it[f]]

RECURSIVE Flatten(_)
\* all nodes of a forest in depth-first pre-order, descending into every
\* children array
Flatten(list) ==
    IF list = <<>> THEN <<>>
    ELSE <<Head(list)>> \o Flatten(ChildrenOf(Head(list))) \o Flatten(Tail(list))

NodeCount(list) == Len(Flatten(list))

IdsOf(list) ==
    LET nodes == Flatten(list)
    IN  {nodes[i].id : i \in 1..Len(nodes)}

(***************************************************************************)
(* JSON.stringify of a ListItem[]: the token sequence of the JSON text.    *)
(* Keys are written in the order id, text, level, children, the order in   *)
(* which every producer of items creates them; an undefined children is    *)
(* not written.                                                            *)
(***************************************************************************)
RECURSIVE Stringify(_), StringifyItems(_)
StringifyItems(list) ==
    IF list = <<>> THEN <<>>
    ELSE LET it == Head(list)
         IN  <<[tok |-> "{"], [id |-> it.id], [text |-> it.text], [level |-> it.level]>>
             \o (IF HasChildren(it) THEN Stringify(it.children) ELSE <<>>)
             \o <<[tok |-> "}"]>>
             \o StringifyItems(Tail(list))

Stringify(list) == <<[tok |-> "["]>> \o StringifyItems(list) \o <<[tok |-> "]"]>>

(***************************************************************************)
(* useHistory (client/src/hooks/useHistory.ts).                            *)
(***************************************************************************)
HistoryState(past, present, future) ==
    [past |-> past, present |-> present, future |-> future]

\* set() that compares by reference: a new object never equals present
HistSetByReference(h, flag, newPresent) ==
    IF flag THEN h
    ELSE LET newPast == Append(h.past, h.present)
         IN  HistoryState(
                 IF Len(newPast) > MaxHistorySize THEN Tail(newPast) ELSE newPast,
                 newPresent,
                 <<>>)

\* set() that drops the newest entry of past, not the oldest, at the cap
HistSetEvictNewest(h, flag, newPresent) ==
    IF Stringify(newPresent) = Stringify(h.present) THEN h
    ELSE IF flag THEN h
    ELSE LET newPast == Append(h.past, h.present)
         IN  HistoryState(
                 IF Len(newPast) > MaxHistorySize
                     THEN SubSeq(newPast, 1, Len(newPast) - 1) ELSE newPast,
                 newPresent,
                 <<>>)

\* the updater of set(newValue), given isUndoRedoRef.current
HistSet(h, flag, newPresent) ==
    IF Stringify(newPresent) = Stringify(h.present) THEN h
    ELSE IF flag THEN h
    ELSE LET newPast == Append(h.past, h.present)
         IN  HistoryState(
                 IF Len(newPast) > MaxHistorySize THEN Tail(newPast) ELSE newPast,
                 newPresent,
                 <<>>)

\* undo() without the guard on an empty past: the present is pushed onto
\* future even when there is nothing to go back to
HistUndoUnguarded(h) ==
    IF Len(h.past) = 0 THEN HistoryState(<<>>, h.present, <<h.present>> \o h.future)
    ELSE HistoryState(SubSeq(h.past, 1, Len(h.past) - 1),
                      h.past[Len(h.past)],
                      <<h.present>> \o h.future)

\* the updater of undo()
HistUndo(h) ==
    IF Len(h.past) = 0 THEN h
    ELSE HistoryState(SubSeq(h.past, 1, Len(h.past) - 1),
                      h.past[Len(h.past)],
                      <<h.present>> \o h.future)

\* the updater of redo()
HistRedo(h) ==
    IF Len(h.future) = 0 THEN h
    ELSE HistoryState(Append(h.past, h.present),
                      Head(h.future),
                      Tail(h.future))

\* reset(newValue)
HistReset(newValue) == HistoryState(<<>>, newValue, <<>>)

\* clear()
HistClear(h) == HistoryState(<<>>, h.present, <<>>)

\* one entry of trail: a call of the hook, its argument, and present and
\* isUndoRedoRef.current as the call found them
Call(op, arg, h, flag) == [op |-> op, arg |-> arg, present |-> h.present, flag |-> flag]

\* trail keeps the two most recent calls
Remember(c) ==
    IF trail = <<>> THEN <<c>> ELSE <<trail[Len(trail)], c>>

\* last, for a call of the hook: the call and the hook state it found
HookEvent(op, arg, h, flag) == [op |-> op, arg |-> arg, before |-> h, flag |-> flag]

(***************************************************************************)
(* Documents: note contents as the server seeds them from                  *)
(* a template (cloneTemplate: every id note-<uuid>, level = depth).        *)
(***************************************************************************)
DocEmpty == <<>>

DocFlat ==
    << Item(-1, <<"a", "b">>, 0), Item(-2, <<>>, 0), Item(-3, <<"b">>, 0) >>

DocNested ==
    << WithChildren(Item(-1, <<"a", "b">>, 0),
                    << WithChildren(Item(-2, <<"b">>, 1), << Item(-3, <<>>, 2) >>),
                       Item(-4, <<"a">>, 1) >>),
       Item(-5, <<" ">>, 0) >>

DocDeep ==
    LET n6 == WithChildren(Item(-6, <<>>, 4), << Item(-7, <<"b">>, 5) >>)
        n4 == WithChildren(Item(-4, <<"a">>, 3), << Item(-5, <<"a">>, 4), n6 >>)
        n3 == WithChildren(Item(-3, <<"b">>, 2), << n4 >>)
        n2 == WithChildren(Item(-2, <<>>, 1), << n3 >>)
    IN  << WithChildren(Item(-1, <<"a">>, 0), << n2 >>) >>

\* a flat document whose levels do not follow from nesting, as part_002's
\* Tab and Shift+Tab (which change only the level) leave it
DocLevels ==
    << Item(-1, <<"a", "b">>, 0), Item(-2, <<>>, 5), Item(-3, <<"b">>, 4) >>

\* the documents each ListEditor source is run on
InitCases ==
    {[doc |-> d, variant |-> "v2"] : d \in {DocEmpty, DocNested, DocLevels}}
    \cup {[doc |-> d, variant |-> "v3"] : d \in {DocNested, DocDeep}}

\* texts an input event can leave in an editable element
RECURSIVE TextsUpTo(_)
TextsUpTo(n) ==
    IF n = 0 THEN {<<>>}
    ELSE TextsUpTo(n - 1)
         \cup {Append(t, c) : t \in {u \in TextsUpTo(n - 1) : Len(u) = n - 1}, c \in Chars}

Texts == TextsUpTo(MaxLen)

\* itemRefs after the first render of `list`: one element per rendered item
RenderDom(list) ==
    LET nodes == Flatten(list)
    IN  [i \in IdsOf(list) |->
            (CHOOSE k \in 1..Len(nodes) :
                /\ nodes[k].id = i
                /\ \A j \in 1..(k - 1) : nodes[j].id # i) ]

NoSave == [pending |-> FALSE]
NoEvent == [op |-> "none"]

\* Home: no debounce timer is pending
\* no caret has been saved or restored
NoSelection == [saved |-> FALSE]

NoTimer == [set |-> FALSE]

\* Home after its first render; asked and sent are observations: the latest
\* updates handed to handleNoteChange and to updateNoteMutation.mutate, per field
InitHome ==
    [saveStatus |-> "saved", saveTimeout |-> NoTimer, inFlight |-> {},
     asked |-> <<>>, sent |-> <<>>]

\* a DailyNote of MemStorage (dates are day numbers)
DailyNote(id, date, note, content) ==
    [id |-> id, date |-> date, focusText |-> note, content |-> content]

\* { ...a, ...updates } of two objects
Assign(a, updates) ==
    [f \in DOMAIN a \cup DOMAIN updates |-> IF f \in DOMAIN updates THEN updates[f] ELSE a[f]]

\* MemStorage.updateDailyNote(date, updates), for a date that has a note
UpdateDailyNote(st, date, updates) ==
    [st EXCEPT !.dailyNotes[date] = Assign(@, updates)]

\* MemStorage.template: null, or a Template with its content
NoTemplate == [set |-> FALSE]
Template(content) == [set |-> TRUE, content |-> content]

\* a server whose note of today holds the document, under a template the
\* user has emptied
StorageWith(doc) ==
    [template |-> Template(<<>>),
     dailyNotes |-> [d \in {0} |-> DailyNote(1, 0, <<>>, doc)],
     uuids |-> 1,
     today |-> 0]

InitEditor(doc, v) ==
    /\ variant = v
    /\ items = doc
    /\ dom = [i \in IdsOf(doc) |-> Flatten(doc)[RenderDom(doc)[i]].text]
    /\ hist = HistoryState(<<>>, doc, <<>>)
    /\ isUndoRedoRef = FALSE
    /\ resetPending = FALSE
    /\ pendingSave = NoSave
    /\ pruneTimers = {}
    /\ now = 1
    /\ steps = 0
    /\ last = NoEvent
    /\ trail = <<>>
    /\ home = InitHome
    /\ focusText = <<>>
    /\ storage = StorageWith(doc)
    /\ heap = <<>>
    /\ refs = <<>>
    /\ waiters = {}
    /\ selection = NoSelection

(***************************************************************************)
(* Tree primitives shared by the ListEditor sources.  Paths and indices    *)
(* are 1-based here (0-based in the source); the empty path stands for     *)
(* null.                                                                   *)
(***************************************************************************)
\* cloneItems: a deep copy; every copied node keeps its id
RECURSIVE CloneItems(_)
CloneItems(list) ==
    [i \in 1..Len(list) |->
        IF HasChildren(list[i])
            THEN WithChildren(list[i], CloneItems(list[i].children))
            ELSE WithoutChildren(list[i])]

\* getVisualOrderItems: ids in depth-first pre-order, descending only into
\* non-empty children arrays
RECURSIVE GetVisualOrderItems(_)
GetVisualOrderItems(list) ==
    IF list = <<>> THEN <<>>
    ELSE <<Head(list).id>>
         \o (IF Len(ChildrenOf(Head(list))) > 0
                THEN GetVisualOrderItems(Head(list).children) ELSE <<>>)
         \o GetVisualOrderItems(Tail(list))

\* Array.prototype.indexOf, 1-based; 0 when absent
IndexOf(s, x) ==
    IF \E i \in 1..Len(s) : s[i] = x
        THEN CHOOSE i \in 1..Len(s) : s[i] = x /\ \A j \in 1..(i - 1) : s[j] # x
        ELSE 0

\* findItemPath: path of the first node with the id in depth-first order
RECURSIVE FindItemPathFrom(_, _, _)
FindItemPathFrom(list, targetId, index) ==
    IF index > Len(list) THEN <<>>
    ELSE IF list[index].id = targetId THEN <<index>>
    ELSE LET childPath ==
                 IF Len(ChildrenOf(list[index])) > 0
                     THEN FindItemPathFrom(list[index].children, targetId, 1)
                     ELSE <<>>
         IN  IF childPath # <<>> THEN <<index>> \o childPath
             ELSE FindItemPathFrom(list, targetId, index + 1)

FindItemPath(list, targetId) == FindItemPathFrom(list, targetId, 1)

\* getItemAndParentByPath(...).item, for a path that resolves
RECURSIVE ItemAt(_, _)
ItemAt(list, path) ==
    IF Len(path) = 1 THEN list[path[1]]
    ELSE ItemAt(ChildrenOf(list[path[1]]), Tail(path))

\* getItemAndParentByPath(...).parentArray, addressed by the path of its owner
RECURSIVE ArrayAt(_, _)
ArrayAt(list, parentPath) ==
    IF parentPath = <<>> THEN list
    ELSE ArrayAt(ChildrenOf(list[parentPath[1]]), Tail(parentPath))

\* the tree with the array owned by parentPath replaced
RECURSIVE ReplaceArrayAt(_, _, _)
ReplaceArrayAt(list, parentPath, arr) ==
    IF parentPath = <<>> THEN arr
    ELSE [list EXCEPT ![parentPath[1]] =
            WithChildren(@, ReplaceArrayAt(ChildrenOf(@), Tail(parentPath), arr))]

\* the tree with the node at path replaced
ReplaceItemAt(list, path, it) ==
    LET parentPath == SubSeq(path, 1, Len(path) - 1)
    IN  ReplaceArrayAt(list, parentPath,
            [ArrayAt(list, parentPath) EXCEPT ![path[Len(path)]] = it])

\* array.splice(index, 1)
RemoveIndex(arr, index) ==
    SubSeq(arr, 1, index - 1) \o SubSeq(arr, index + 1, Len(arr))

\* array.splice(index, 0, it): it is inserted after the first `after` elements
InsertAfter(arr, after, it) ==
    SubSeq(arr, 1, after) \o <<it>> \o SubSeq(arr, after + 1, Len(arr))

\* the tree with the node at path spliced out of its array
RemoveAt(list, path) ==
    LET parentPath == SubSeq(path, 1, Len(path) - 1)
    IN  ReplaceArrayAt(list, parentPath,
            RemoveIndex(ArrayAt(list, parentPath), path[Len(path)]))

\* `item-${Date.now()}`: distinct clock values give distinct ids
MintId(clock) == clock

(***************************************************************************)
(* Mutations of unnamed/part_002 (suffix 2).  Each returns the tree it     *)
(* hands to onChange.                                                      *)
(***************************************************************************)
RECURSIVE UpdateItem2(_, _, _)
UpdateItem2(list, id, updates) ==
    [i \in 1..Len(list) |->
        IF list[i].id = id THEN Merge(list[i], updates)
        ELSE IF HasChildren(list[i])
            THEN WithChildren(list[i], UpdateItem2(list[i].children, id, updates))
            ELSE list[i]]

\* deleteItem that removes the item but leaves its children in its place
RECURSIVE DeleteItem2KeepsChildren(_, _)
DeleteItem2KeepsChildren(list, id) ==
    IF list = <<>> THEN <<>>
    ELSE LET item == Head(list)
             rest == DeleteItem2KeepsChildren(Tail(list), id)
         IN  IF item.id = id THEN ChildrenOf(item) \o rest
             ELSE IF HasChildren(item)
                 THEN <<WithChildren(item, DeleteItem2KeepsChildren(item.children, id))>> \o rest
                 ELSE <<item>> \o rest

RECURSIVE DeleteItem2(_, _)
DeleteItem2(list, id) ==
    IF list = <<>> THEN <<>>
    ELSE LET item == Head(list)
             rest == DeleteItem2(Tail(list), id)
         IN  IF item.id = id THEN rest
             ELSE IF HasChildren(item)
                 THEN <<WithChildren(item, DeleteItem2(item.children, id))>> \o rest
                 ELSE <<item>> \o rest

RECURSIVE AddItemAfter2(_, _, _)
AddItemAfter2(list, id, newItem) ==
    IF list = <<>> THEN <<>>
    ELSE LET item == Head(list)
             kept == IF HasChildren(item)
                        THEN WithChildren(item, AddItemAfter2(item.children, id, newItem))
                        ELSE item
         IN  <<kept>> \o (IF item.id = id THEN <<newItem>> ELSE <<>>)
             \o AddItemAfter2(Tail(list), id, newItem)

RECURSIVE UpdateAndAddAfter2(_, _, _, _)
UpdateAndAddAfter2(list, id, updates, newItem) ==
    IF list = <<>> THEN <<>>
    ELSE LET item == Head(list)
             rest == UpdateAndAddAfter2(Tail(list), id, updates, newItem)
         IN  IF item.id = id THEN <<Merge(item, updates), newItem>> \o rest
             ELSE IF HasChildren(item)
                 THEN <<WithChildren(item,
                           UpdateAndAddAfter2(item.children, id, updates, newItem))>> \o rest
                 ELSE <<item>> \o rest

\* a swap that loses an element: a[i] = a[j] only
SwapOverwrites(arr, i, j) == [arr EXCEPT ![i] = arr[j]]

\* [a[i], a[j]] = [a[j], a[i]]
Swap(arr, i, j) == [arr EXCEPT ![i] = arr[j], ![j] = arr[i]]

\* moveItemUp: the tree handed to onChange, or NoChange when it returns early
NoChange == [changed |-> FALSE]
Changed(tree) == [changed |-> TRUE, tree |-> tree]

MoveItemUp2(list, id) ==
    LET path == FindItemPath(list, id)
        parentPath == SubSeq(path, 1, Len(path) - 1)
        index == path[Len(path)]
    IN  IF path = <<>> THEN NoChange
        ELSE IF index = 1 THEN NoChange
        ELSE Changed(ReplaceArrayAt(list, parentPath,
                        Swap(ArrayAt(list, parentPath), index - 1, index)))

MoveItemDown2(list, id) ==
    LET path == FindItemPath(list, id)
        parentPath == SubSeq(path, 1, Len(path) - 1)
        index == path[Len(path)]
    IN  IF path = <<>> THEN NoChange
        ELSE IF index >= Len(ArrayAt(list, parentPath)) THEN NoChange
        ELSE Changed(ReplaceArrayAt(list, parentPath,
                        Swap(ArrayAt(list, parentPath), index, index + 1)))

\* the copy duplicateItem builds of an item
DuplicatedItem(item, clock) ==
    IF HasChildren(item)
        THEN [id |-> MintId(clock), text |-> item.text, level |-> item.level,
              children |-> CloneItems(item.children)]
        ELSE [id |-> MintId(clock), text |-> item.text, level |-> item.level]

DuplicateItem2(list, id, clock) ==
    LET path == FindItemPath(list, id)
    IN  IF path = <<>> THEN NoChange
        ELSE Changed(AddItemAfter2(list, id, DuplicatedItem(ItemAt(list, path), clock)))

\* Backspace at the start of a non-empty item: merge into the previous item
\* in visual order
MergeWithPrevious2(list, id) ==
    LET visualOrder == GetVisualOrderItems(list)
        currentIndex == IndexOf(visualOrder, id)
    IN  IF currentIndex <= 1 THEN NoChange
        ELSE
        LET previousId == visualOrder[currentIndex - 1]
            previousPath == FindItemPath(list, previousId)
            currentPath == FindItemPath(list, id)
        IN  IF previousPath = <<>> \/ currentPath = <<>> THEN NoChange
            ELSE
            LET itemsCopy == CloneItems(list)
                current == ItemAt(itemsCopy, currentPath)
                removed == RemoveAt(itemsCopy, currentPath)
                previous == ItemAt(removed, previousPath)
                text == previous.text \o current.text
                merged ==
                    IF Len(ChildrenOf(current)) > 0
                        THEN [id |-> previous.id, text |-> text, level |-> previous.level,
                              children |-> ChildrenOf(previous) \o current.children]
                        ELSE Merge(previous, [text |-> text])
            IN  Changed(ReplaceItemAt(removed, previousPath, merged))

\* where the node at path sits once the node at removedPath is spliced out;
\* the empty path when it was inside the removed subtree
PathAfterRemoval(path, removedPath) ==
    LET d == Len(removedPath)
    IN  IF Len(path) >= d /\ SubSeq(path, 1, d - 1) = SubSeq(removedPath, 1, d - 1)
            THEN IF path[d] = removedPath[d] THEN <<>>
                 ELSE IF path[d] > removedPath[d] THEN [path EXCEPT ![d] = @ - 1]
                 ELSE path
            ELSE path

\* Delete at the end of an item: merge the next item in visual order into it
MergeWithNext2(list, id) ==
    LET visualOrder == GetVisualOrderItems(list)
        currentIndex == IndexOf(visualOrder, id)
    IN  IF currentIndex = 0 \/ currentIndex >= Len(visualOrder) THEN NoChange
        ELSE
        LET nextItemId == visualOrder[currentIndex + 1]
            currentPath == FindItemPath(list, id)
            nextPath == FindItemPath(list, nextItemId)
        IN  IF currentPath = <<>> \/ nextPath = <<>> THEN NoChange
            ELSE
            LET itemsCopy == CloneItems(list)
                next == ItemAt(itemsCopy, nextPath)
                removed == RemoveAt(itemsCopy, nextPath)
                currentNow == PathAfterRemoval(currentPath, nextPath)
            IN  IF currentNow = <<>> THEN Changed(removed)
                ELSE
                LET current == ItemAt(removed, currentNow)
                    text == current.text \o next.text
                    merged ==
                        IF Len(ChildrenOf(next)) > 0
                            THEN [id |-> current.id, text |-> text, level |-> current.level,
                                  children |-> ChildrenOf(current) \o next.children]
                            ELSE Merge(current, [text |-> text])
                IN  Changed(ReplaceItemAt(removed, currentNow, merged))

(***************************************************************************)
(* Mutations of unnamed/part_003, lines 1-874 (suffix 3).                  *)
(***************************************************************************)
\* findItemLocation: path of the first node with the id, descending into
\* every children array
RECURSIVE FindItemLocationFrom(_, _, _)
FindItemLocationFrom(list, id, index) ==
    IF index > Len(list) THEN <<>>
    ELSE IF list[index].id = id THEN <<index>>
    ELSE LET result ==
                 IF HasChildren(list[index])
                     THEN FindItemLocationFrom(list[index].children, id, 1)
                     ELSE <<>>
         IN  IF result # <<>> THEN <<index>> \o result
             ELSE FindItemLocationFrom(list, id, index + 1)

FindItemLocation(list, id) == FindItemLocationFrom(list, id, 1)

Min(a, b) == IF a < b THEN a ELSE b
Max(a, b) == IF a > b THEN a ELSE b

\* adjustSubtreeLevels
RECURSIVE AdjustSubtreeLevels(_, _)
AdjustSubtreeLevels(node, delta) ==
    LET level == Min(MaxLevel, Max(MinLevel, node.level + delta))
    IN  IF HasChildren(node)
            THEN [id |-> node.id, text |-> node.text, level |-> level,
                  children |-> [i \in 1..Len(node.children) |->
                                   AdjustSubtreeLevels(node.children[i], delta)]]
            ELSE [id |-> node.id, text |-> node.text, level |-> level]

\* cleanupEmptyChildren
RECURSIVE CleanupEmptyChildren(_)
CleanupEmptyChildren(node) ==
    IF ~HasChildren(node) THEN node
    ELSE IF Len(node.children) = 0 THEN WithoutChildren(node)
    ELSE WithChildren(node, [i \in 1..Len(node.children) |->
                                CleanupEmptyChildren(node.children[i])])

\* getSubtreeLevelBounds
SubtreeLevels(node) == {n.level : n \in {Flatten(<<node>>)[i] : i \in 1..Len(Flatten(<<node>>))}}

SetMin(S) == CHOOSE x \in S : \A y \in S : x <= y
SetMax(S) == CHOOSE x \in S : \A y \in S : x >= y

GetSubtreeLevelBounds(node) ==
    [min |-> SetMin(SubtreeLevels(node)), max |-> SetMax(SubtreeLevels(node))]

\* indentItem without the check of the subtree's level bounds: levels that
\* would leave 0..5 are clamped by adjustSubtreeLevels
IndentItem3Clamps(list, id) ==
    LET cloned == CloneItems(list)
        location == FindItemLocation(cloned, id)
    IN  IF location = <<>> THEN NoChange
        ELSE
        LET parentPath == SubSeq(location, 1, Len(location) - 1)
            array == ArrayAt(cloned, parentPath)
            index == location[Len(location)]
        IN  IF index = 1 THEN NoChange
            ELSE
            LET previousSibling == array[index - 1]
                targetLevel == Min(previousSibling.level + 1, MaxLevel)
                itemToMove == array[index]
                bounds == GetSubtreeLevelBounds(itemToMove)
                levelDelta == targetLevel - itemToMove.level
            IN  IF targetLevel <= previousSibling.level THEN NoChange
                ELSE
                LET moved == IF levelDelta # 0
                                THEN AdjustSubtreeLevels(itemToMove, levelDelta)
                                ELSE itemToMove
                    adopted == WithChildren(previousSibling,
                                   Append(ChildrenOf(previousSibling), moved))
                    newArray == RemoveIndex([array EXCEPT ![index - 1] = adopted], index)
                    spliced == ReplaceArrayAt(cloned, parentPath, newArray)
                IN  IF parentPath = <<>> THEN Changed(spliced)
                    ELSE Changed(ReplaceItemAt(spliced, parentPath,
                                    CleanupEmptyChildren(ItemAt(spliced, parentPath))))

\* indentItem that makes the item the first child of its previous sibling
IndentItem3AsFirstChild(list, id) ==
    LET cloned == CloneItems(list)
        location == FindItemLocation(cloned, id)
    IN  IF location = <<>> THEN NoChange
        ELSE
        LET parentPath == SubSeq(location, 1, Len(location) - 1)
            array == ArrayAt(cloned, parentPath)
            index == location[Len(location)]
        IN  IF index = 1 THEN NoChange
            ELSE
            LET previousSibling == array[index - 1]
                targetLevel == Min(previousSibling.level + 1, MaxLevel)
                itemToMove == array[index]
                bounds == GetSubtreeLevelBounds(itemToMove)
                levelDelta == targetLevel - itemToMove.level
            IN  IF targetLevel <= previousSibling.level THEN NoChange
                ELSE IF bounds.max + levelDelta > MaxLevel
                        \/ bounds.min + levelDelta < MinLevel THEN NoChange
                ELSE
                LET moved == IF levelDelta # 0
                                THEN AdjustSubtreeLevels(itemToMove, levelDelta)
                                ELSE itemToMove
                    adopted == WithChildren(previousSibling,
                                   <<moved>> \o ChildrenOf(previousSibling))
                    newArray == RemoveIndex([array EXCEPT ![index - 1] = adopted], index)
                    spliced == ReplaceArrayAt(cloned, parentPath, newArray)
                IN  IF parentPath = <<>> THEN Changed(spliced)
                    ELSE Changed(ReplaceItemAt(spliced, parentPath,
                                    CleanupEmptyChildren(ItemAt(spliced, parentPath))))

IndentItem3(list, id) ==
    LET cloned == CloneItems(list)
        location == FindItemLocation(cloned, id)
    IN  IF location = <<>> THEN NoChange
        ELSE
        LET parentPath == SubSeq(location, 1, Len(location) - 1)
            array == ArrayAt(cloned, parentPath)
            index == location[Len(location)]
        IN  IF index = 1 THEN NoChange
            ELSE
            LET previousSibling == array[index - 1]
                targetLevel == Min(previousSibling.level + 1, MaxLevel)
                itemToMove == array[index]
                bounds == GetSubtreeLevelBounds(itemToMove)
                levelDelta == targetLevel - itemToMove.level
            IN  IF targetLevel <= previousSibling.level THEN NoChange
                ELSE IF bounds.max + levelDelta > MaxLevel
                        \/ bounds.min + levelDelta < MinLevel THEN NoChange
                ELSE
                LET moved == IF levelDelta # 0
                                THEN AdjustSubtreeLevels(itemToMove, levelDelta)
                                ELSE itemToMove
                    adopted == WithChildren(previousSibling,
                                   Append(ChildrenOf(previousSibling), moved))
                    newArray == RemoveIndex([array EXCEPT ![index - 1] = adopted], index)
                    spliced == ReplaceArrayAt(cloned, parentPath, newArray)
                IN  IF parentPath = <<>> THEN Changed(spliced)
                    ELSE Changed(ReplaceItemAt(spliced, parentPath,
                                    CleanupEmptyChildren(ItemAt(spliced, parentPath))))

\* outdentItem that moves the subtree without shifting its levels
OutdentItem3KeepsLevels(list, id) ==
    LET cloned == CloneItems(list)
        location == FindItemLocation(cloned, id)
    IN  IF location = <<>> \/ Len(location) = 1 THEN NoChange
        ELSE
        LET parentPath == SubSeq(location, 1, Len(location) - 1)
            parent == ItemAt(cloned, parentPath)
            parentLocation == FindItemLocation(cloned, parent.id)
            index == location[Len(location)]
            itemToMove == parent.children[index]
            levelDelta == parent.level - itemToMove.level
            bounds == GetSubtreeLevelBounds(itemToMove)
        IN  IF parentLocation = <<>> THEN NoChange
            ELSE IF bounds.max + levelDelta > MaxLevel
                    \/ bounds.min + levelDelta < MinLevel THEN NoChange
            ELSE
            LET moved == itemToMove
                \* array.splice(index, 1) and cleanupEmptyChildren(parent)
                cleaned == ReplaceItemAt(cloned, parentPath,
                               CleanupEmptyChildren(
                                   WithChildren(parent, RemoveIndex(parent.children, index))))
                insertionPath == SubSeq(parentLocation, 1, Len(parentLocation) - 1)
                parentIndex == parentLocation[Len(parentLocation)]
            IN  Changed(ReplaceArrayAt(cleaned, insertionPath,
                            InsertAfter(ArrayAt(cleaned, insertionPath), parentIndex, moved)))

\* outdentItem that inserts the item before its former parent
OutdentItem3BeforeParent(list, id) ==
    LET cloned == CloneItems(list)
        location == FindItemLocation(cloned, id)
    IN  IF location = <<>> \/ Len(location) = 1 THEN NoChange
        ELSE
        LET parentPath == SubSeq(location, 1, Len(location) - 1)
            parent == ItemAt(cloned, parentPath)
            parentLocation == FindItemLocation(cloned, parent.id)
            index == location[Len(location)]
            itemToMove == parent.children[index]
            levelDelta == parent.level - itemToMove.level
            bounds == GetSubtreeLevelBounds(itemToMove)
        IN  IF parentLocation = <<>> THEN NoChange
            ELSE IF bounds.max + levelDelta > MaxLevel
                    \/ bounds.min + levelDelta < MinLevel THEN NoChange
            ELSE
            LET moved == IF levelDelta # 0
                            THEN AdjustSubtreeLevels(itemToMove, levelDelta)
                            ELSE itemToMove
                \* array.splice(index, 1) and cleanupEmptyChildren(parent)
                cleaned == ReplaceItemAt(cloned, parentPath,
                               CleanupEmptyChildren(
                                   WithChildren(parent, RemoveIndex(parent.children, index))))
                insertionPath == SubSeq(parentLocation, 1, Len(parentLocation) - 1)
                parentIndex == parentLocation[Len(parentLocation)]
            IN  Changed(ReplaceArrayAt(cleaned, insertionPath,
                            InsertAfter(ArrayAt(cleaned, insertionPath), parentIndex - 1, moved)))

OutdentItem3(list, id) ==
    LET cloned == CloneItems(list)
        location == FindItemLocation(cloned, id)
    IN  IF location = <<>> \/ Len(location) = 1 THEN NoChange
        ELSE
        LET parentPath == SubSeq(location, 1, Len(location) - 1)
            parent == ItemAt(cloned, parentPath)
            parentLocation == FindItemLocation(cloned, parent.id)
            index == location[Len(location)]
            itemToMove == parent.children[index]
            levelDelta == parent.level - itemToMove.level
            bounds == GetSubtreeLevelBounds(itemToMove)
        IN  IF parentLocation = <<>> THEN NoChange
            ELSE IF bounds.max + levelDelta > MaxLevel
                    \/ bounds.min + levelDelta < MinLevel THEN NoChange
            ELSE
            LET moved == IF levelDelta # 0
                            THEN AdjustSubtreeLevels(itemToMove, levelDelta)
                            ELSE itemToMove
                \* array.splice(index, 1) and cleanupEmptyChildren(parent)
                cleaned == ReplaceItemAt(cloned, parentPath,
                               CleanupEmptyChildren(
                                   WithChildren(parent, RemoveIndex(parent.children, index))))
                insertionPath == SubSeq(parentLocation, 1, Len(parentLocation) - 1)
                parentIndex == parentLocation[Len(parentLocation)]
            IN  Changed(ReplaceArrayAt(cleaned, insertionPath,
                            InsertAfter(ArrayAt(cleaned, insertionPath), parentIndex, moved)))

\* updateItem: the first node with the id is replaced
UpdateItem3(list, id, updates) ==
    LET cloned == CloneItems(list)
        location == FindItemLocation(cloned, id)
    IN  IF location = <<>> THEN cloned
        ELSE ReplaceItemAt(cloned, location, Merge(ItemAt(cloned, location), updates))

RECURSIVE DeleteItem3(_, _)
DeleteItem3(list, id) ==
    IF list = <<>> THEN <<>>
    ELSE LET item == Head(list)
             rest == DeleteItem3(Tail(list), id)
         IN  IF item.id = id THEN rest
             ELSE IF HasChildren(item)
                 THEN LET updatedChildren == DeleteItem3(item.children, id)
                      IN  <<IF Len(updatedChildren) > 0
                               THEN WithChildren(item, updatedChildren)
                               ELSE WithoutChildren(item)>> \o rest
                 ELSE <<item>> \o rest

AddItemAfter3(list, id, newItem) ==
    LET cloned == CloneItems(list)
        location == FindItemLocation(cloned, id)
        parentPath == SubSeq(location, 1, Len(location) - 1)
    IN  IF location = <<>> THEN Append(cloned, newItem)
        ELSE ReplaceArrayAt(cloned, parentPath,
                 InsertAfter(ArrayAt(cloned, parentPath), location[Len(location)], newItem))

UpdateAndAddAfter3(list, id, updates, newItem) ==
    LET cloned == CloneItems(list)
        location == FindItemLocation(cloned, id)
        parentPath == SubSeq(location, 1, Len(location) - 1)
        index == location[Len(location)]
        array == ArrayAt(cloned, parentPath)
    IN  IF location = <<>> THEN Append(cloned, newItem)
        ELSE ReplaceArrayAt(cloned, parentPath,
                 InsertAfter([array EXCEPT ![index] = Merge(array[index], updates)],
                             index, newItem))

(***************************************************************************)
(* SpecHistory: the useHistory hook on its own, driven by arbitrary calls  *)
(* of set, undo, redo, reset and clear with values from HistValues, and    *)
(* by the timeout that clears isUndoRedoRef.                               *)
(***************************************************************************)
HistValues == {DocEmpty, DocFlat, << Item(-1, <<"a">>, 0) >>}

editorVars == <<variant, items, dom, pendingSave, pruneTimers, now, steps, pageVars>>

HookSet(v) ==
    /\ hist' = HistSet(hist, isUndoRedoRef, v)
    /\ trail' = Remember(Call("set", v, hist, isUndoRedoRef))
    /\ last' = HookEvent("set", v, hist, isUndoRedoRef)
    /\ UNCHANGED <<isUndoRedoRef, resetPending>>
    /\ UNCHANGED editorVars

HookUndo ==
    /\ hist' = HistUndo(hist)
    /\ isUndoRedoRef' = (IF Len(hist.past) = 0 THEN isUndoRedoRef ELSE TRUE)
    /\ resetPending' = TRUE
    /\ trail' = Remember(Call("undo", <<>>, hist, isUndoRedoRef))
    /\ last' = HookEvent("undo", <<>>, hist, isUndoRedoRef)
    /\ UNCHANGED editorVars

HookRedo ==
    /\ hist' = HistRedo(hist)
    /\ isUndoRedoRef' = (IF Len(hist.future) = 0 THEN isUndoRedoRef ELSE TRUE)
    /\ resetPending' = TRUE
    /\ trail' = Remember(Call("redo", <<>>, hist, isUndoRedoRef))
    /\ last' = HookEvent("redo", <<>>, hist, isUndoRedoRef)
    /\ UNCHANGED editorVars

HookReset(v) ==
    /\ hist' = HistReset(v)
    /\ trail' = Remember(Call("reset", v, hist, isUndoRedoRef))
    /\ last' = HookEvent("reset", v, hist, isUndoRedoRef)
    /\ UNCHANGED <<isUndoRedoRef, resetPending>>
    /\ UNCHANGED editorVars

HookClear ==
    /\ hist' = HistClear(hist)
    /\ trail' = Remember(Call("clear", <<>>, hist, isUndoRedoRef))
    /\ last' = HookEvent("clear", <<>>, hist, isUndoRedoRef)
    /\ UNCHANGED <<isUndoRedoRef, resetPending>>
    /\ UNCHANGED editorVars

\* the setTimeout(() => { isUndoRedoRef.current = false }, 0) of undo / redo
FlagTimeout ==
    /\ resetPending
    /\ isUndoRedoRef' = FALSE
    /\ resetPending' = FALSE
    /\ UNCHANGED <<hist, trail, last>>
    /\ UNCHANGED editorVars

InitHistory == \E v \in HistValues : InitEditor(v, "v2")

NextHistory ==
    \/ \E v \in HistValues : HookSet(v)
    \/ HookUndo
    \/ HookRedo
    \/ \E v \in HistValues : HookReset(v)
    \/ HookClear
    \/ FlagTimeout

SpecHistory == InitHistory /\ [][NextHistory]_vars

(***************************************************************************)
(* The editor: NoteEditor (hook + sync effect + undo/redo keys) around a   *)
(* ListEditor whose `items` prop is note.content.  The tree a handler      *)
(* hands to onChange goes to set(); the sync effect hands a changed        *)
(* present to onNoteChange; `items` changes only when the save round trip  *)
(* (debounce, PATCH, refetch) delivers it back (Sync).                     *)
(***************************************************************************)
UpdateItemV(list, id, updates) ==
    IF variant = "v2" THEN UpdateItem2(list, id, updates) ELSE UpdateItem3(list, id, updates)

DeleteItemV(list, id) ==
    IF variant = "v2" THEN DeleteItem2(list, id) ELSE DeleteItem3(list, id)

UpdateAndAddAfterV(list, id, updates, newItem) ==
    IF variant = "v2" THEN UpdateAndAddAfter2(list, id, updates, newItem)
    ELSE UpdateAndAddAfter3(list, id, updates, newItem)

\* the onChange calls of an operation that may return early
CallsOf(result) == IF result.changed THEN <<result.tree>> ELSE <<>>

\* handleContentChange for each onChange call of one handler, in order
RECURSIVE SetAll(_, _, _)
SetAll(h, flag, calls) ==
    IF calls = <<>> THEN h ELSE SetAll(HistSet(h, flag, Head(calls)), flag, Tail(calls))

Pending(content) == [pending |-> TRUE, content |-> content]

\* the sync effect of NoteEditor, run when contentHistory has changed
SyncEffect(h) ==
    IF h # hist /\ Stringify(h.present) # Stringify(items)
        THEN Pending(h.present) ELSE pendingSave

\* text.trim() === ''
IsBlank(text) == \A i \in 1..Len(text) : text[i] = " "

Positions == 1..NodeCount(items)
ItemAtPos(k) == Flatten(items)[k]
DomText(id) == dom[id]

AllTrees ==
    {items, hist.present} \cup {hist.past[i] : i \in 1..Len(hist.past)}
    \cup {hist.future[i] : i \in 1..Len(hist.future)}
    \cup (IF pendingSave.pending THEN {pendingSave.content} ELSE {})
    \cup {t.snapshot : t \in pruneTimers}

\* an id of the current clock value exists: a later mint must see a later clock
ClockUsed ==
    \/ MintId(now) \in IdsOf(hist.present)
    \/ MintId(now) \in IdsOf(items)
    \/ pendingSave.pending /\ MintId(now) \in IdsOf(pendingSave.content)
    \/ \E i \in 1..Len(hist.past) : MintId(now) \in IdsOf(hist.past[i])
    \/ \E i \in 1..Len(hist.future) : MintId(now) \in IdsOf(hist.future[i])
    \/ \E t \in pruneTimers : MintId(now) \in IdsOf(t.snapshot)

\* the previous event, as the next one remembers it
Brief(ev) ==
    IF ev.op = "none" THEN ev
    ELSE [op |-> ev.op, id |-> ev.id, pre |-> ev.pre, calls |-> ev.calls,
          arg |-> ev.arg, clock |-> ev.clock]

\* last, for an event on the item with the id: the tree and the hook state
\* the handler found, and the trees it handed to onChange
EventOn(op, id, pre, calls, arg) ==
    [op |-> op, id |-> id, pre |-> pre, calls |-> calls, arg |-> arg,
     clock |-> now, before |-> hist, prev |-> Brief(last)]

\* pos: the place, in depth-first order, of the item whose element got the
\* event; text: the element's textContent when the event arrived
Event(op, k, calls, arg) ==
    [op |-> op, id |-> ItemAtPos(k).id, pre |-> items, calls |-> calls, arg |-> arg,
     clock |-> now, before |-> hist, prev |-> Brief(last), pos |-> k,
     text |-> DomText(ItemAtPos(k).id)]

\* what every handler of ListEditor does with its onChange calls
Emit(calls) ==
    /\ hist' = SetAll(hist, isUndoRedoRef, calls)
    /\ pendingSave' = SyncEffect(hist')
    /\ UNCHANGED <<pageVars, variant, items, isUndoRedoRef, resetPending, now, trail>>

UserEvent ==
    /\ steps < MaxSteps
    /\ steps' = steps + 1

\* Enter with the selection [s, e) of the element's text (s = e: a caret)
Enter(k, s, e) ==
    LET item == ItemAtPos(k)
        text == DomText(item.id)
        domText == SubSeq(text, 1, s) \o SubSeq(text, e + 1, Len(text))
        textBeforeCursor == SubSeq(text, 1, s)
        textAfterCursor == SubSeq(text, e + 1, Len(text))
        newItem == Item(MintId(now), textAfterCursor, item.level)
        calls == (IF s < e THEN <<UpdateItemV(items, item.id, [text |-> domText])>> ELSE <<>>)
                 \o <<UpdateAndAddAfterV(items, item.id, [text |-> textBeforeCursor], newItem)>>
    IN  /\ UserEvent
        /\ Emit(calls)
        /\ dom' = [dom EXCEPT ![item.id] = domText]
        /\ last' = Event("Enter", k, calls, [s |-> s, e |-> e, text |-> text])
        /\ UNCHANGED pruneTimers

\* Tab without the upper bound on the level
KeyIndent2Unbounded(k) ==
    LET item == ItemAtPos(k)
        calls == <<UpdateItem2(items, item.id, [level |-> item.level + 1])>>
    IN  /\ variant = "v2"
        /\ UserEvent
        /\ Emit(calls)
        /\ last' = Event("Tab", k, calls, <<>>)
        /\ UNCHANGED <<dom, pruneTimers>>

\* part_002: Tab, or Cmd/Ctrl+]
KeyIndent2(k) ==
    LET item == ItemAtPos(k)
        calls == IF item.level < MaxLevel
                    THEN <<UpdateItem2(items, item.id, [level |-> item.level + 1])>>
                    ELSE <<>>
    IN  /\ variant = "v2"
        /\ UserEvent
        /\ Emit(calls)
        /\ last' = Event("Tab", k, calls, <<>>)
        /\ UNCHANGED <<dom, pruneTimers>>

\* part_002: Shift+Tab, or Cmd/Ctrl+[
KeyOutdent2(k) ==
    LET item == ItemAtPos(k)
        calls == IF item.level > MinLevel
                    THEN <<UpdateItem2(items, item.id, [level |-> item.level - 1])>>
                    ELSE <<>>
    IN  /\ variant = "v2"
        /\ UserEvent
        /\ Emit(calls)
        /\ last' = Event("ShiftTab", k, calls, <<>>)
        /\ UNCHANGED <<dom, pruneTimers>>

\* part_002: Cmd/Ctrl+Shift+ArrowUp (the ArrowUp branch that also runs only
\* moves focus)
KeyMoveUp2(k) ==
    LET calls == CallsOf(MoveItemUp2(items, ItemAtPos(k).id))
    IN  /\ variant = "v2"
        /\ UserEvent
        /\ Emit(calls)
        /\ last' = Event("MoveUp", k, calls, <<>>)
        /\ UNCHANGED <<dom, pruneTimers>>

\* part_002: Cmd/Ctrl+Shift+ArrowDown
KeyMoveDown2(k) ==
    LET calls == CallsOf(MoveItemDown2(items, ItemAtPos(k).id))
    IN  /\ variant = "v2"
        /\ UserEvent
        /\ Emit(calls)
        /\ last' = Event("MoveDown", k, calls, <<>>)
        /\ UNCHANGED <<dom, pruneTimers>>

\* part_002: Cmd/Ctrl+D
KeyDuplicate2(k) ==
    LET calls == CallsOf(DuplicateItem2(items, ItemAtPos(k).id, now))
    IN  /\ variant = "v2"
        /\ UserEvent
        /\ Emit(calls)
        /\ last' = Event("Duplicate", k, calls, <<>>)
        /\ UNCHANGED <<dom, pruneTimers>>

\* part_002, the Backspace branch with a collapsed caret at offset 0
BackspaceCalls2(item) ==
    IF DomText(item.id) = <<>>
        THEN IF item.level > MinLevel
                THEN <<UpdateItem2(items, item.id, [level |-> item.level - 1])>>
                ELSE <<DeleteItem2(items, item.id)>>
        ELSE CallsOf(MergeWithPrevious2(items, item.id))

\* the focus request of that branch: the previous item in visual order, at
\* the end of its text (after a delete) or at the offset of its old text
\* length (after a merge); no request otherwise
NoFocus == [focus |-> 0]
FocusAt(id, offset) == [focus |-> id, offset |-> offset]
FocusAtEnd(id) == [focus |-> id, atEnd |-> TRUE]

BackspaceFocus2(item) ==
    LET visualOrder == GetVisualOrderItems(items)
        currentIndex == IndexOf(visualOrder, item.id)
        previousId == visualOrder[currentIndex - 1]
    IN  IF DomText(item.id) = <<>>
            THEN IF item.level > MinLevel \/ currentIndex <= 1 THEN NoFocus
                 ELSE FocusAtEnd(previousId)
            ELSE IF MergeWithPrevious2(items, item.id).changed
                THEN FocusAt(previousId,
                             Len(ItemAt(items, FindItemPath(items, previousId)).text))
                ELSE NoFocus

KeyBackspace2(k) ==
    LET calls == BackspaceCalls2(ItemAtPos(k))
    IN  /\ variant = "v2"
        /\ UserEvent
        /\ Emit(calls)
        /\ last' = Event("Backspace", k, calls, BackspaceFocus2(ItemAtPos(k)))
        /\ UNCHANGED <<dom, pruneTimers>>

\* part_002: Cmd/Ctrl+Shift+Backspace; the Backspace branch runs after it,
\* and acts when the caret is collapsed at offset 0 (atStart)
\* nextFocusId of Cmd/Ctrl+Shift+Backspace: the next item in visual order,
\* else the previous one, else null (0)
NextFocusId(list, id) ==
    LET visualOrder == GetVisualOrderItems(list)
        currentIndex == IndexOf(visualOrder, id)
    IN  IF currentIndex < Len(visualOrder) THEN visualOrder[currentIndex + 1]
        ELSE IF currentIndex > 1 THEN visualOrder[currentIndex - 1]
        ELSE 0

KeyDeleteItem2(k, atStart) ==
    LET item == ItemAtPos(k)
        calls == <<DeleteItem2(items, item.id)>>
                 \o (IF atStart THEN BackspaceCalls2(item) ELSE <<>>)
    IN  /\ variant = "v2"
        /\ UserEvent
        /\ Emit(calls)
        /\ last' = Event("DeleteItem", k, calls,
                         [atStart |-> atStart, focus |-> NextFocusId(items, item.id)])
        /\ UNCHANGED <<dom, pruneTimers>>

\* part_002: Delete with a collapsed caret at the end of the text
KeyDelete2(k) ==
    LET item == ItemAtPos(k)
        calls == CallsOf(MergeWithNext2(items, item.id))
        caret == IF calls = <<>> THEN NoFocus
                 ELSE FocusAt(item.id, Len(ItemAt(items, FindItemPath(items, item.id)).text))
    IN  /\ variant = "v2"
        /\ UserEvent
        /\ Emit(calls)
        /\ last' = Event("Delete", k, calls, caret)
        /\ UNCHANGED <<dom, pruneTimers>>

\* part_003: Tab
KeyIndent3(k) ==
    LET calls == CallsOf(IndentItem3(items, ItemAtPos(k).id))
    IN  /\ variant = "v3"
        /\ UserEvent
        /\ Emit(calls)
        /\ last' = Event("Tab", k, calls, <<>>)
        /\ UNCHANGED <<dom, pruneTimers>>

\* part_003: Shift+Tab
KeyOutdent3(k) ==
    LET calls == CallsOf(OutdentItem3(items, ItemAtPos(k).id))
    IN  /\ variant = "v3"
        /\ UserEvent
        /\ Emit(calls)
        /\ last' = Event("ShiftTab", k, calls, <<>>)
        /\ UNCHANGED <<dom, pruneTimers>>

\* part_003: Backspace with a collapsed caret at offset 0 of an empty element
KeyBackspace3(k) ==
    LET item == ItemAtPos(k)
        calls == IF item.level > MinLevel
                    THEN CallsOf(OutdentItem3(items, item.id))
                    ELSE <<DeleteItem3(items, item.id)>>
    IN  /\ variant = "v3"
        /\ DomText(item.id) = <<>>
        /\ UserEvent
        /\ Emit(calls)
        /\ last' = Event("Backspace", k, calls, <<>>)
        /\ UNCHANGED <<dom, pruneTimers>>

\* part_003: Delete in an empty element
KeyDelete3(k) ==
    LET item == ItemAtPos(k)
        visualOrder == GetVisualOrderItems(items)
        currentIndex == IndexOf(visualOrder, item.id)
        nextItemId == visualOrder[currentIndex + 1]
        calls == IF currentIndex >= 1 /\ currentIndex < Len(visualOrder)
                    THEN <<DeleteItem3(items, nextItemId),
                           UpdateItem3(items, item.id, [text |-> DomText(nextItemId)])>>
                    ELSE <<>>
    IN  /\ variant = "v3"
        /\ DomText(item.id) = <<>>
        /\ UserEvent
        /\ Emit(calls)
        /\ last' = Event("Delete", k, calls, <<>>)
        /\ UNCHANGED <<dom, pruneTimers>>

\* handleInput: the element's text has become newText
Input(k, newText) ==
    LET item == ItemAtPos(k)
        calls == <<UpdateItemV(items, item.id, [text |-> newText])>>
    IN  /\ newText # DomText(item.id)
        /\ UserEvent
        /\ Emit(calls)
        /\ dom' = [dom EXCEPT ![item.id] = newText]
        /\ last' = Event("Input", k, calls, newText)
        /\ UNCHANGED pruneTimers

\* handleBlur: an empty item that is not alone and has no children gets a
\* 100 ms timer whose callback closes over the current `items`
Blur(k) ==
    LET item == ItemAtPos(k)
        schedule == /\ IsBlank(item.text)
                    /\ Len(items) # 1
                    /\ Len(ChildrenOf(item)) = 0
    IN  /\ UserEvent
        /\ pruneTimers' = IF schedule
                             THEN pruneTimers \cup {[id |-> item.id, snapshot |-> items]}
                             ELSE pruneTimers
        /\ last' = Event("Blur", k, <<>>, <<schedule>>)
        /\ UNCHANGED <<pageVars, variant, items, dom, hist, isUndoRedoRef, resetPending,
                       pendingSave, now, trail>>

\* the callback of a handleBlur timer
PruneTimeout(timer) ==
    LET calls == IF timer.id \in DOMAIN dom /\ IsBlank(dom[timer.id])
                    THEN <<DeleteItemV(timer.snapshot, timer.id)>>
                    ELSE <<>>
    IN  /\ timer \in pruneTimers
        /\ pruneTimers' = pruneTimers \ {timer}
        /\ Emit(calls)
        /\ last' = EventOn("Prune", timer.id, timer.snapshot, calls, <<>>)
        /\ UNCHANGED <<dom, steps>>

\* createAndFocusNewItem, handleContainerClick and the empty-list placeholder
CreateNewItem ==
    LET calls == <<Append(items, Item(MintId(now), <<>>, MinLevel))>>
    IN  /\ UserEvent
        /\ Emit(calls)
        /\ last' = EventOn("Create", MintId(now), items, calls, <<>>)
        /\ UNCHANGED <<dom, pruneTimers>>

\* NoteEditor, Cmd/Ctrl+Z with canUndo
Undo ==
    /\ Len(hist.past) > 0
    /\ UserEvent
    /\ hist' = HistUndo(hist)
    /\ isUndoRedoRef' = TRUE
    /\ resetPending' = TRUE
    /\ pendingSave' = SyncEffect(hist')
    /\ last' = EventOn("Undo", 0, items, <<>>, <<>>)
    /\ UNCHANGED <<pageVars, variant, items, dom, pruneTimers, now, trail>>

\* NoteEditor, Cmd/Ctrl+Shift+Z or Cmd/Ctrl+Y with canRedo.  Redo is not
\* counted in steps: every redo consumes an entry of future that a counted
\* undo put there.
Redo ==
    /\ Len(hist.future) > 0
    /\ UNCHANGED steps
    /\ hist' = HistRedo(hist)
    /\ isUndoRedoRef' = TRUE
    /\ resetPending' = TRUE
    /\ pendingSave' = SyncEffect(hist')
    /\ last' = EventOn("Redo", 0, items, <<>>, <<>>)
    /\ UNCHANGED <<pageVars, variant, items, dom, pruneTimers, now, trail>>

\* NoteEditor.handleEmptySpaceClick on an empty note: the new item goes to
\* onNoteChange directly, not through the history hook
EmptySpaceClick ==
    /\ Len(items) = 0
    /\ UserEvent
    /\ pendingSave' = Pending(<<Item(MintId(now), <<>>, MinLevel)>>)
    /\ last' = EventOn("EmptySpaceClick", MintId(now), items, <<>>, <<>>)
    /\ UNCHANGED <<pageVars, variant, items, dom, hist, isUndoRedoRef, resetPending, pruneTimers,
                   now, trail>>

\* the id of the node that owns the array holding the first node with the
\* id; 0 for a root item
ParentIdOf(list, id) ==
    LET path == FindItemLocation(list, id)
    IN  IF Len(path) <= 1 THEN 0
        ELSE ItemAt(list, SubSeq(path, 1, Len(path) - 1)).id

TextOf(list, id) == ItemAt(list, FindItemLocation(list, id)).text

\* itemRefs after React has rendered newItems over oldItems: an element that
\* stays mounted keeps its DOM text unless its text prop changed; elements
\* of removed items stay in the map
RenderOver(oldItems, newItems) ==
    [i \in DOMAIN dom \cup IdsOf(newItems) |->
        IF i \notin IdsOf(newItems) THEN dom[i]
        ELSE IF /\ i \in IdsOf(oldItems)
                /\ ParentIdOf(oldItems, i) = ParentIdOf(newItems, i)
                /\ TextOf(oldItems, i) = TextOf(newItems, i)
            THEN dom[i]
            ELSE TextOf(newItems, i)]

\* a round trip whose delivery is fed back into handleContentChange
SyncEchoes ==
    /\ pendingSave.pending
    /\ items' = pendingSave.content
    /\ dom' = RenderOver(items, pendingSave.content)
    /\ pendingSave' = NoSave
    /\ now' = IF ClockUsed THEN now + 1 ELSE now
    /\ hist' = HistSet(hist, isUndoRedoRef, pendingSave.content)
    /\ storage' = UpdateDailyNote(storage, 0, [content |-> pendingSave.content])
    /\ UNCHANGED <<home, focusText, aliasVars, domVars, variant, isUndoRedoRef, resetPending, pruneTimers,
                   steps, last, trail>>

\* the debounced save of the content last handed to onNoteChange completes
\* and the refetch delivers it as note.content
Sync ==
    /\ pendingSave.pending
    /\ items' = pendingSave.content
    /\ dom' = RenderOver(items, pendingSave.content)
    /\ pendingSave' = NoSave
    /\ now' = IF ClockUsed THEN now + 1 ELSE now
    /\ storage' = UpdateDailyNote(storage, 0, [content |-> pendingSave.content])
    /\ UNCHANGED <<home, focusText, aliasVars, domVars, variant, hist, isUndoRedoRef, resetPending,
                   pruneTimers, steps, last, trail>>

\* a millisecond passes
Tick ==
    /\ ClockUsed
    /\ now' = now + 1
    /\ UNCHANGED <<pageVars, variant, items, dom, hist, isUndoRedoRef, resetPending, pendingSave,
                   pruneTimers, steps, last, trail>>

Init == \E c \in InitCases : InitEditor(c.doc, c.variant)

Next ==
    \/ \E k \in Positions : \E s \in 0..Len(DomText(ItemAtPos(k).id)) :
           \E e \in s..Len(DomText(ItemAtPos(k).id)) : Enter(k, s, e)
    \/ \E k \in Positions : KeyIndent2(k)
    \/ \E k \in Positions : KeyOutdent2(k)
    \/ \E k \in Positions : KeyMoveUp2(k)
    \/ \E k \in Positions : KeyMoveDown2(k)
    \/ \E k \in Positions : KeyDuplicate2(k)
    \/ \E k \in Positions : KeyBackspace2(k)
    \/ \E k \in Positions : \E atStart \in BOOLEAN : KeyDeleteItem2(k, atStart)
    \/ \E k \in Positions : KeyDelete2(k)
    \/ \E k \in Positions : KeyIndent3(k)
    \/ \E k \in Positions : KeyOutdent3(k)
    \/ \E k \in Positions : KeyBackspace3(k)
    \/ \E k \in Positions : KeyDelete3(k)
    \/ \E k \in Positions : \E newText \in Texts : Input(k, newText)
    \/ \E k \in Positions : Blur(k)
    \/ \E timer \in pruneTimers : PruneTimeout(timer)
    \/ CreateNewItem
    \/ EmptySpaceClick
    \/ Undo
    \/ Redo
    \/ FlagTimeout
    \/ Sync
    \/ Tick

Spec == Init /\ [][Next]_vars

(***************************************************************************)
(* Properties of the history hook (checked under SpecHistory).             *)
(***************************************************************************)
LastCallIs(op) == "flag" \in DOMAIN last /\ last.op = op

\* the last call was set(T) with T structurally different from present
LastSetDiffers ==
    /\ LastCallIs("set")
    /\ Stringify(last.arg) # Stringify(last.before.present)

\* C3: after set(T) with T structurally different from present, undo()
\* makes present the tree that was present before the set, and a redo()
\* directly after that undo() makes present T.
UndoRedoRoundTrip ==
    ( /\ Len(trail) = 2
      /\ trail[1].op = "set"
      /\ Stringify(trail[1].arg) # Stringify(trail[1].present)
      /\ trail[2].op = "undo" )
    => /\ hist.present = trail[1].present
       /\ HistRedo(hist).present = trail[1].arg

\* C4: set(T) with T structurally different from present appends the old
\* present to the end of past, sets present to T and empties future.
SetRecords ==
    LastSetDiffers
    => /\ hist.past \in { Append(last.before.past, last.before.present),
                          Tail(Append(last.before.past, last.before.present)) }
       /\ hist.present = last.arg
       /\ hist.future = <<>>

\* C5: set(T) with T structurally equal to present leaves past, present and
\* future unchanged: no history entry is created and the redo stack is kept.
SetEqualIsNoOp ==
    ( /\ LastCallIs("set")
      /\ Stringify(last.arg) = Stringify(last.before.present) )
    => hist = last.before

\* a set(T) with T equal to present arrived while both stacks were non-empty
SetEqualSeen ==
    /\ LastCallIs("set")
    /\ Stringify(last.arg) = Stringify(last.before.present)
    /\ last.before.past # <<>>
    /\ last.before.future # <<>>

\* C6: past never holds more than maxHistorySize entries; a set that finds
\* past full evicts the oldest entry and keeps the order of the others.
PastBounded ==
    /\ Len(hist.past) <= MaxHistorySize
    /\ ( /\ LastCallIs("set")
         /\ hist # last.before
         /\ Len(last.before.past) = MaxHistorySize )
       => hist.past = Append(Tail(last.before.past), last.before.present)

\* a set was recorded while past was full
EvictionSeen ==
    /\ LastCallIs("set")
    /\ hist # last.before
    /\ Len(last.before.past) = MaxHistorySize
    /\ last.before.past[1] # last.before.past[2]

\* undo() was called on an empty past, or redo() on an empty future
UndoAtEmptyPast == LastCallIs("undo") /\ Len(last.before.past) = 0
RedoAtEmptyFuture == LastCallIs("redo") /\ Len(last.before.future) = 0

ResultOf(ev) == ev.calls[Len(ev.calls)]

LevelsOf(tree) ==
    LET nodes == Flatten(tree)
    IN  {nodes[i].level : i \in 1..Len(nodes)}

\* C1: after any sequence of editor operations on a document whose levels
\* are in 0..5, every item of every tree the editor holds (the document, the
\* history entries, the content on its way to persistence) has a level in
\* 0..5.
LevelsInRange == \A t \in AllTrees : LevelsOf(t) \subseteq MinLevel..MaxLevel

\* an indent has raised an item to the highest level and the result is the
\* document
IndentToMaxLevel ==
    /\ last.op = "Tab"
    /\ last.calls # <<>>
    /\ items = ResultOf(last)
    /\ TextOf(last.pre, last.id) = TextOf(items, last.id)
    /\ ItemAt(last.pre, FindItemLocation(last.pre, last.id)).level = MaxLevel - 1
    /\ ItemAt(items, FindItemLocation(items, last.id)).level = MaxLevel

\* C2: no two items of the document share an id.
UniqueIds == Cardinality(IdsOf(items)) = NodeCount(items)

\* a step that delivers the saved content back to the editor after an undo
\* or a redo
Propagation ==
    /\ last.op \in {"Undo", "Redo"}
    /\ pendingSave.pending
    /\ items' = pendingSave.content
    /\ pendingSave' = NoSave

\* C7: propagating the result of undo() or redo() to the parent and back
\* into the editor adds no entry to past and does not clear future.
PropagationRecordsNothing ==
    [][Propagation => (hist'.past = hist.past /\ hist'.future = hist.future)]_vars

\* the tree undo() made present has come back as the document, it differs
\* from the document undo() found, and future still holds the undone edit
UndoPropagated ==
    /\ last.op = "Undo"
    /\ ~pendingSave.pending
    /\ items = hist.present
    /\ items # last.pre
    /\ Len(hist.future) > 0
    /\ hist.future[1] = last.before.present

\* Backspace at the start of the item that the Enter before it created by
\* splitting X at a caret
SplitThenBackspace ==
    /\ variant = "v2"
    /\ last.op = "Backspace"
    /\ last.prev.op = "Enter"
    /\ last.prev.arg.s = last.prev.arg.e
    /\ last.id = MintId(last.prev.clock)

\* X's text is what it was before the split and the new item is gone
SplitUndone ==
    /\ last.calls # <<>>
    /\ MintId(last.prev.clock) \notin IdsOf(ResultOf(last))
    /\ TextOf(ResultOf(last), last.prev.id) = last.prev.arg.text

\* C8: for every item X, with or without children, and every caret
\* position, Enter followed by Backspace at the start of the new item
\* restores X's text and removes the new item.
SplitMergeRoundTrip == SplitThenBackspace => SplitUndone

\* outdentItem(id) has run on the tree that an indentItem(id) which was not
\* a no-op produced
IndentThenOutdent ==
    /\ variant = "v3"
    /\ last.op = "ShiftTab"
    /\ last.prev.op = "Tab"
    /\ last.prev.id = last.id
    /\ last.prev.calls # <<>>
    /\ last.pre = ResultOf(last.prev)

\* the item is where it was before the indent, at the level it had
BackInPlace ==
    /\ last.calls # <<>>
    /\ FindItemLocation(ResultOf(last), last.id)
           = FindItemLocation(last.prev.pre, last.id)
    /\ ItemAt(ResultOf(last), FindItemLocation(ResultOf(last), last.id)).level
           = ItemAt(last.prev.pre, FindItemLocation(last.prev.pre, last.id)).level

RECURSIVE WithoutIds(_)
WithoutIds(list) ==
    [i \in 1..Len(list) |->
        IF HasChildren(list[i])
            THEN WithChildren(Item(0, list[i].text, list[i].level),
                              WithoutIds(list[i].children))
            ELSE Item(0, list[i].text, list[i].level)]

\* C10: duplicateItem(id) inserts, right after the original in the same
\* array, a copy with the same text and the same shape and texts of
\* children, and no id of the copy equals an id of the original subtree or
\* of any other item of the document.
DuplicateIsFreshCopy ==
    last.op = "Duplicate" =>
        LET path == FindItemPath(last.pre, last.id)
            parentPath == SubSeq(path, 1, Len(path) - 1)
            copyPath == [path EXCEPT ![Len(path)] = @ + 1]
            result == ResultOf(last)
            copy == ItemAt(result, copyPath)
        IN  /\ last.calls # <<>>
            /\ ItemAt(result, path) = ItemAt(last.pre, path)
            /\ Len(ArrayAt(result, parentPath)) = Len(ArrayAt(last.pre, parentPath)) + 1
            /\ WithoutIds(<<copy>>) = WithoutIds(<<ItemAt(last.pre, path)>>)
            /\ IdsOf(<<copy>>) \cap IdsOf(last.pre) = {}
            /\ Cardinality(IdsOf(<<copy>>)) = NodeCount(<<copy>>)

(***************************************************************************)
(* Properties of the single operations, checked under Spec.  The item an   *)
(* event is about is the first node of the tree the handler found with the *)
(* event's id.                                                             *)
(***************************************************************************)
TargetPath(ev) == FindItemLocation(ev.pre, ev.id)

TargetOf(ev) == ItemAt(ev.pre, TargetPath(ev))

\* the path of the node that owns the array holding the node at path
OwnerPath(path) == SubSeq(path, 1, Len(path) - 1)

\* the tree in which the node at path has the text `before` and is followed
\* in its array by newItem, and nothing else differs from `pre`
SplitTree(pre, path, before, newItem) ==
    LET array == ArrayAt(pre, OwnerPath(path))
        index == path[Len(path)]
    IN  ReplaceArrayAt(pre, OwnerPath(path),
            InsertAfter([array EXCEPT ![index] = Merge(@, [text |-> before])],
                        index, newItem))

\* C11: Enter on item X with the caret (or selection) splitting its text
\* into (textBefore, textAfter): X's text becomes textBefore, exactly one
\* new item with text textAfter and X's level, without children, is inserted
\* immediately after X in X's own array, X keeps its children, and no other
\* item changes.
EnterSplits ==
    last.op = "Enter" =>
        LET textBefore == SubSeq(last.arg.text, 1, last.arg.s)
            textAfter == SubSeq(last.arg.text, last.arg.e + 1, Len(last.arg.text))
            newItem == Item(MintId(last.clock), textAfter, TargetOf(last).level)
        IN  ResultOf(last) = SplitTree(last.pre, TargetPath(last), textBefore, newItem)

\* a subtree with every level shifted by delta
RECURSIVE ShiftLevels(_, _)
ShiftLevels(node, delta) ==
    IF HasChildren(node)
        THEN [id |-> node.id, text |-> node.text, level |-> node.level + delta,
              children |-> [i \in 1..Len(node.children) |->
                               ShiftLevels(node.children[i], delta)]]
        ELSE [id |-> node.id, text |-> node.text, level |-> node.level + delta]

\* the item an indent targets is the first of its array
FirstInArray(ev) == TargetPath(ev)[Len(TargetPath(ev))] = 1

PreviousSibling(ev) ==
    ArrayAt(ev.pre, OwnerPath(TargetPath(ev)))[TargetPath(ev)[Len(TargetPath(ev))] - 1]

IndentDelta(ev) == PreviousSibling(ev).level + 1 - TargetOf(ev).level

\* shifting the subtree of the node by delta leaves a level outside 0..5
ShiftLeavesRange(node, delta) ==
    \E l \in LevelsOf(<<node>>) : l + delta \notin MinLevel..MaxLevel

\* the tree in which the target, with its subtree shifted by the indent
\* delta, has left its array and is the last child of its previous sibling
IndentedTree(ev) ==
    LET path == TargetPath(ev)
        array == ArrayAt(ev.pre, OwnerPath(path))
        index == path[Len(path)]
        moved == ShiftLevels(TargetOf(ev), IndentDelta(ev))
        adopter == WithChildren(PreviousSibling(ev),
                                Append(ChildrenOf(PreviousSibling(ev)), moved))
    IN  ReplaceArrayAt(ev.pre, OwnerPath(path),
            RemoveIndex([array EXCEPT ![index - 1] = adopter], index))

IsIndent == variant = "v3" /\ last.op = "Tab"

\* C12 as stated: indentItem(id) leaves the document unchanged if the target
\* is first in its array; otherwise the target with its whole subtree
\* becomes the last child of the item that preceded it in that array, every
\* node of the subtree shifted by previous sibling's level + 1 - target's
\* level.
IndentMovesUnlessFirst ==
    IsIndent =>
        IF FirstInArray(last) THEN last.calls = <<>>
        ELSE last.calls # <<>> /\ ResultOf(last) = IndentedTree(last)

\* C12 (amended): indentItem(id) leaves the document unchanged if the target
\* is first in its array or if the shift would put a node of its subtree
\* outside 0..5; otherwise the target with its whole subtree becomes the
\* last child of the item that preceded it in that array, every node of the
\* subtree shifted by previous sibling's level + 1 - target's level.
IndentMovesUnlessFirstOrRejected ==
    IsIndent =>
        IF FirstInArray(last) THEN last.calls = <<>>
        ELSE IF ShiftLeavesRange(TargetOf(last), IndentDelta(last)) THEN last.calls = <<>>
        ELSE last.calls # <<>> /\ ResultOf(last) = IndentedTree(last)

\* an item with children has been indented under a sibling that had
\* children already
SubtreeIndented ==
    /\ IsIndent
    /\ last.calls # <<>>
    /\ ~FirstInArray(last)
    /\ Len(ChildrenOf(TargetOf(last))) > 0
    /\ Len(ChildrenOf(PreviousSibling(last))) > 0
    /\ ResultOf(last) = IndentedTree(last)

\* a forest in which an empty children array is written as an absent one
RECURSIVE NoEmptyChildren(_)
NoEmptyChildren(list) ==
    [i \in 1..Len(list) |->
        IF Len(ChildrenOf(list[i])) > 0
            THEN WithChildren(list[i], NoEmptyChildren(list[i].children))
            ELSE WithoutChildren(list[i])]

HasParent(ev) == Len(TargetPath(ev)) > 1

ParentOf(ev) == ItemAt(ev.pre, OwnerPath(TargetPath(ev)))

\* the tree in which the target, with its subtree shifted by parent.level -
\* target.level, has left its parent's children and follows the parent in
\* the array that holds the parent
OutdentedTree(ev) ==
    LET path == TargetPath(ev)
        parentPath == OwnerPath(path)
        parent == ParentOf(ev)
        moved == ShiftLevels(TargetOf(ev), parent.level - TargetOf(ev).level)
        bereft == WithChildren(parent, RemoveIndex(parent.children, path[Len(path)]))
        array == ArrayAt(ev.pre, OwnerPath(parentPath))
        parentIndex == parentPath[Len(parentPath)]
    IN  ReplaceArrayAt(ev.pre, OwnerPath(parentPath),
            InsertAfter([array EXCEPT ![parentIndex] = bereft], parentIndex, moved))

IsOutdent == variant = "v3" /\ last.op = "ShiftTab"

IndentCalled(ev) == ev.op = "Tab" /\ ~FirstInArray(ev)

OutdentCalled(ev) ==
    /\ \/ ev.op = "ShiftTab"
       \/ ev.op = "Backspace" /\ TargetOf(ev).level > MinLevel
    /\ HasParent(ev)

\* the level shift of the operation
ShiftOf(ev) ==
    IF ev.op = "Tab" THEN IndentDelta(ev)
    ELSE ParentOf(ev).level - TargetOf(ev).level

\* the moved subtree, as the tree handed to onChange holds it
MovedSubtree(ev) == ItemAt(ResultOf(ev), FindItemLocation(ResultOf(ev), ev.id))

RECURSIVE PathsFrom(_, _, _)
PathsFrom(list, prefix, index) ==
    IF index > Len(list) THEN <<>>
    ELSE <<Append(prefix, index)>>
         \o PathsFrom(ChildrenOf(list[index]), Append(prefix, index), 1)
         \o PathsFrom(list, prefix, index + 1)

PathsOf(list) == PathsFrom(list, <<>>, 1)

\* the node whose element got the event, and its neighbours in visual order
EventPath(ev) == PathsOf(ev.pre)[ev.pos]
EventItem(ev) == ItemAt(ev.pre, EventPath(ev))
IsFirstVisible(ev) == ev.pos = 1
IsLastVisible(ev) == ev.pos = NodeCount(ev.pre)
PreviousPath(ev) == PathsOf(ev.pre)[ev.pos - 1]
NextPath(ev) == PathsOf(ev.pre)[ev.pos + 1]

\* the tree in which the node at `from` is gone and the node at `into` has
\* got its text appended to its own and its children appended after its own
MergedTree(pre, from, into) ==
    LET gone == ItemAt(pre, from)
        removed == RemoveAt(pre, from)
        intoNow == PathAfterRemoval(into, from)
        kept == ItemAt(removed, intoNow)
    IN  ReplaceItemAt(removed, intoNow,
            WithChildren(Merge(kept, [text |-> ItemAt(pre, into).text \o gone.text]),
                         ChildrenOf(kept) \o ChildrenOf(gone)))

\* Backspace of part_002 with a collapsed caret at the start of an element
\* that holds text
IsBackspaceMerge ==
    variant = "v2" /\ last.op = "Backspace" /\ last.text # <<>>

\* C15: Backspace with the caret collapsed at the start of a non-empty item
\* T appends T's text to the text of the item P that precedes T in visual
\* order, appends T's children after P's children, removes T, and puts the
\* caret into P at the offset of P's original text length; if T is first in
\* visual order the document is unchanged.
BackspaceMergesIntoPrevious ==
    IsBackspaceMerge =>
        IF IsFirstVisible(last) THEN last.calls = <<>>
        ELSE /\ last.calls # <<>>
             /\ NoEmptyChildren(ResultOf(last))
                    = NoEmptyChildren(MergedTree(last.pre, EventPath(last), PreviousPath(last)))
             /\ last.arg = FocusAt(ItemAt(last.pre, PreviousPath(last)).id,
                                   Len(ItemAt(last.pre, PreviousPath(last)).text))

\* Delete of part_002 with a collapsed caret at the end of the element's text
IsDeleteMerge == variant = "v2" /\ last.op = "Delete"

\* C16: Delete with the caret collapsed at the end of item T appends the
\* text of the item N that follows T in visual order to T's text, appends
\* N's children to T's children, removes exactly N, and leaves the caret in
\* T at the offset of T's original text length; if no item follows T the
\* document is unchanged.
DeleteMergesNext ==
    IsDeleteMerge =>
        IF IsLastVisible(last) THEN last.calls = <<>>
        ELSE /\ last.calls # <<>>
             /\ NoEmptyChildren(ResultOf(last))
                    = NoEmptyChildren(MergedTree(last.pre, NextPath(last), EventPath(last)))
             /\ last.arg = FocusAt(last.id, Len(EventItem(last).text))

IsMove == variant = "v2" /\ last.op \in {"MoveUp", "MoveDown"}

\* the index, in the target's array, of the sibling a move exchanges it with
SwapIndex(ev) ==
    LET index == TargetPath(ev)[Len(TargetPath(ev))]
    IN  IF ev.op = "MoveUp" THEN index - 1 ELSE index + 1

\* C17: moveItemUp(id) / moveItemDown(id) exchange the target with its
\* immediately preceding / following sibling in the same array and change
\* nothing else; when the target is first / last in its array the document
\* is unchanged.
MoveSwapsSiblings ==
    IsMove =>
        LET owner == OwnerPath(TargetPath(last))
            index == TargetPath(last)[Len(TargetPath(last))]
            other == SwapIndex(last)
            old == ArrayAt(last.pre, owner)
        IN  IF other \notin 1..Len(old) THEN last.calls = <<>>
            ELSE /\ last.calls # <<>>
                 /\ LET new == ArrayAt(ResultOf(last), owner)
                    IN  /\ Len(new) = Len(old)
                        /\ new[other] = old[index]
                        /\ new[index] = old[other]
                        /\ \A i \in 1..Len(old) : i \notin {index, other} => new[i] = old[i]
                        /\ ReplaceArrayAt(ResultOf(last), owner, old) = last.pre

\* a child has been moved up past a sibling that has children
MovedPastSubtree ==
    /\ IsMove
    /\ last.op = "MoveUp"
    /\ last.calls # <<>>
    /\ HasParent(last)
    /\ Len(ChildrenOf(ArrayAt(last.pre, OwnerPath(TargetPath(last)))[SwapIndex(last)])) > 0
    /\ ResultOf(last) # last.pre

\* the outline of a forest: id, text, level and depth of every node, in
\* depth-first pre-order (this determines the forest up to empty children
\* arrays)
Outline(list) ==
    LET paths == PathsOf(list)
    IN  [i \in 1..Len(paths) |->
            [id |-> ItemAt(list, paths[i]).id, text |-> ItemAt(list, paths[i]).text,
             level |-> ItemAt(list, paths[i]).level, depth |-> Len(paths[i])]]

\* the node at path carries the id, or lies below a node that does
InSubtreeOf(list, path, id) ==
    \E n \in 1..Len(path) : ItemAt(list, SubSeq(path, 1, n)).id = id

\* the outline of the forest without the nodes carrying the id and without
\* their descendants
RECURSIVE OutlineWithoutFrom(_, _, _)
OutlineWithoutFrom(list, id, i) ==
    IF i > NodeCount(list) THEN <<>>
    ELSE (IF InSubtreeOf(list, PathsOf(list)[i], id) THEN <<>> ELSE <<Outline(list)[i]>>)
         \o OutlineWithoutFrom(list, id, i + 1)

OutlineWithout(list, id) == OutlineWithoutFrom(list, id, 1)

\* the event called deleteItem(id) first: Cmd/Ctrl+Shift+Backspace,
\* Backspace in an empty level-0 item, or the pruning timer
CalledDeleteItem(ev) ==
    \/ ev.op = "DeleteItem"
    \/ ev.op = "Prune" /\ ev.calls # <<>>
    \/ ev.op = "Backspace" /\ ev.text = <<>> /\ EventItem(ev).level = MinLevel

IsDeleteItemKey == variant = "v2" /\ last.op = "DeleteItem"

\* the id of the item after the event's item in visual order, else of the
\* item before it, else 0
NeighbourId(ev) ==
    IF ~IsLastVisible(ev) THEN ItemAt(ev.pre, NextPath(ev)).id
    ELSE IF ~IsFirstVisible(ev) THEN ItemAt(ev.pre, PreviousPath(ev)).id
    ELSE 0

\* C19: after Cmd/Ctrl+Shift+Backspace on an item the focus request goes to
\* the next item in visual order, or to the previous one if none follows,
\* and whenever the resulting document is non-empty the item chosen for
\* focus is an item of the resulting document.
FocusSurvivesDelete ==
    IsDeleteItemKey =>
        /\ last.arg.focus = NeighbourId(last)
        /\ ResultOf(last) # <<>> => last.arg.focus \in IdsOf(ResultOf(last))

\* Backspace with the caret at the start of an empty element
IsBackspaceOnEmpty == last.op = "Backspace" /\ last.text = <<>>

\* the event's item is gone from the tree the handler handed on
EventItemRemoved(ev) ==
    /\ ev.calls # <<>>
    /\ NodeCount(ResultOf(ev)) < NodeCount(ev.pre)

\* C20: Backspace with the caret at the start of an empty level-0 item
\* deletes the item only when it is not the document's only item and has no
\* children; Backspace never makes the document empty and never removes an
\* item that has children.
BackspaceDeletesOnlyLeaves ==
    IsBackspaceOnEmpty =>
        /\ (EventItem(last).level = MinLevel /\ EventItemRemoved(last))
              => (Len(last.pre) > 1 /\ Len(ChildrenOf(EventItem(last))) = 0)
        /\ last.calls # <<>> => ResultOf(last) # <<>>
        /\ EventItemRemoved(last) => Len(ChildrenOf(EventItem(last))) = 0

(***************************************************************************)
(* Visual order and its neighbours (part_002).                             *)
(***************************************************************************)
\* findPreviousItem: the id whose element is returned; 0 stands for null
FindPreviousItem(list, currentId) ==
    LET visualOrder == GetVisualOrderItems(list)
        currentIndex == IndexOf(visualOrder, currentId)
    IN  IF currentIndex > 1 THEN visualOrder[currentIndex - 1] ELSE 0

\* findNextItem: the id whose element is returned; 0 stands for null
FindNextItem(list, currentId) ==
    LET visualOrder == GetVisualOrderItems(list)
        currentIndex == IndexOf(visualOrder, currentId)
    IN  IF currentIndex >= 1 /\ currentIndex < Len(visualOrder)
            THEN visualOrder[currentIndex + 1] ELSE 0

\* the ids of the nodes of a forest, each node before its children and the
\* children before the next sibling
PreOrderIds(list) ==
    LET nodes == Flatten(list)
    IN  [i \in 1..Len(nodes) |-> nodes[i].id]

\* C21: the visual-order list of the document is its depth-first pre-order
\* walk, holds every item id exactly once, and findPreviousItem and
\* findNextItem of an item are its neighbours in that list (null at the ends).
VisualOrderIsPreOrder ==
    LET visualOrder == GetVisualOrderItems(items)
        n == Len(visualOrder)
    IN  /\ visualOrder = PreOrderIds(items)
        /\ \A i, j \in 1..n : visualOrder[i] = visualOrder[j] => i = j
        /\ \A k \in 1..n :
              /\ FindPreviousItem(items, ItemAtPos(k).id)
                     = (IF k > 1 THEN ItemAtPos(k - 1).id ELSE 0)
              /\ FindNextItem(items, ItemAtPos(k).id)
                     = (IF k < n THEN ItemAtPos(k + 1).id ELSE 0)

(***************************************************************************)
(* SpecMutations: the mutation functions of the two ListEditor sources on  *)
(* their own, called with any id the editor has ever shown (an id of the   *)
(* document or one that is no longer, or not yet, in it).  The tree a call *)
(* hands to onChange becomes the document of the next call.                *)
(***************************************************************************)
\* ids a caller can hold: those of the seeded notes and the one minted last
CallerIds ==
    IdsOf(DocNested) \cup IdsOf(DocDeep) \cup (IF now > 1 THEN {MintId(now - 1)} ELSE {})

\* the item a caller adds: `item-${Date.now()}`, empty, at level 0
FreshItem == Item(MintId(now), <<>>, MinLevel)

\* one call of a mutation: result is Changed(tree) when the function calls
\* onChange(tree), NoChange when it returns before that
Apply(op, id, result) ==
    /\ UserEvent
    /\ items' = IF result.changed THEN result.tree ELSE items
    /\ last' = EventOn(op, id, items, CallsOf(result), <<>>)
    /\ now' = now + 1
    /\ UNCHANGED <<pageVars, variant, dom, hist, isUndoRedoRef, resetPending, pendingSave,
                   pruneTimers, trail>>

CallUpdateItem(id, text) ==
    Apply("updateItem", id, Changed(UpdateItemV(items, id, [text |-> text])))

CallDeleteItem(id) ==
    Apply("deleteItem", id, Changed(DeleteItemV(items, id)))

CallAddItemAfter(id) ==
    Apply("addItemAfter", id,
          Changed(IF variant = "v2" THEN AddItemAfter2(items, id, FreshItem)
                  ELSE AddItemAfter3(items, id, FreshItem)))

CallUpdateAndAddAfter(id, text) ==
    Apply("updateAndAddAfter", id,
          Changed(UpdateAndAddAfterV(items, id, [text |-> text], FreshItem)))

CallMoveItemUp(id) == variant = "v2" /\ Apply("moveItemUp", id, MoveItemUp2(items, id))

CallMoveItemDown(id) == variant = "v2" /\ Apply("moveItemDown", id, MoveItemDown2(items, id))

CallDuplicateItem(id) ==
    variant = "v2" /\ Apply("duplicateItem", id, DuplicateItem2(items, id, now))

CallIndentItem(id) == variant = "v3" /\ Apply("indentItem", id, IndentItem3(items, id))

CallOutdentItem(id) == variant = "v3" /\ Apply("outdentItem", id, OutdentItem3(items, id))

InitMutations ==
    \E v \in {"v2", "v3"} : \E doc \in {DocNested, DocDeep} : InitEditor(doc, v)

NextMutations ==
    \/ \E id \in CallerIds : \E text \in Texts : CallUpdateItem(id, text)
    \/ \E id \in CallerIds : CallDeleteItem(id)
    \/ \E id \in CallerIds : CallAddItemAfter(id)
    \/ \E id \in CallerIds : \E text \in Texts : CallUpdateAndAddAfter(id, text)
    \/ \E id \in CallerIds : CallMoveItemUp(id)
    \/ \E id \in CallerIds : CallMoveItemDown(id)
    \/ \E id \in CallerIds : CallDuplicateItem(id)
    \/ \E id \in CallerIds : CallIndentItem(id)
    \/ \E id \in CallerIds : CallOutdentItem(id)

SpecMutations == InitMutations /\ [][NextMutations]_vars

\* the last call named an id that no item of the tree it was given has
CalledWithAbsentId == last.op # "none" /\ last.id \notin IdsOf(last.pre)

\* C22: a mutation called with an id that is not in the document leaves the
\* document structurally unchanged: it hands no tree to onChange, or the tree
\* it hands on equals the document it was given.
AbsentIdIsNoOp ==
    CalledWithAbsentId => \A i \in 1..Len(last.calls) : last.calls[i] = last.pre

(***************************************************************************)
(* Deferred pruning of empty items (handleBlur and its timer).             *)
(***************************************************************************)
\* the timer of a handleBlur has just deleted its item
IsPrune == last.op = "Prune" /\ last.calls # <<>>

\* the nodes of a tree that carry the id
NodesWithId(list, id) ==
    LET nodes == Flatten(list)
    IN  {nodes[i] : i \in {j \in 1..Len(nodes) : nodes[j].id = id}}

\* the editor's document when the timer fired
DocumentAtPrune == last.before.present

\* C23: when a handleBlur timer deletes an item, the item is, in the document
\* of that moment, empty or whitespace-only, without children and not the
\* only remaining item; and the deletion never turns a non-empty document
\* into an empty one.
PruneOnlyEmptyLeaves ==
    IsPrune =>
        /\ \A node \in NodesWithId(DocumentAtPrune, last.id) :
              /\ IsBlank(node.text)
              /\ Len(ChildrenOf(node)) = 0
              /\ NodeCount(DocumentAtPrune) > 1
        /\ DocumentAtPrune # <<>> => ResultOf(last) # <<>>

\* the last two events were key or input events that each handed a tree to
\* onChange
TwoMutationsInARow ==
    /\ "pos" \in DOMAIN last
    /\ last.calls # <<>>
    /\ last.prev.op \notin {"none", "Prune", "Undo", "Redo", "EmptySpaceClick", "Blur"}
    /\ last.prev.calls # <<>>

\* C24: of two consecutive keystrokes that mutate the document, the second
\* is dispatched against the tree the first one produced, whether or not
\* the save round trip of the first has completed in between.
ConsecutiveKeysCompose ==
    TwoMutationsInARow => last.pre = ResultOf(last.prev)

(***************************************************************************)
(* SpecSave: the save pipeline of Home around one NoteEditor (the note of  *)
(* today): edits of the list and of the focus text reach handleNoteChange, *)
(* whose single 100 ms timer hands the updates to updateNoteMutation; the  *)
(* PATCH succeeds (the server merges the updates and the refetch delivers  *)
(* the note) or fails.                                                     *)
(***************************************************************************)
MaxEdits == 3          \* user events in one behaviour of the save pipeline

SaveStep ==
    /\ steps < MaxEdits
    /\ steps' = steps + 1

\* the note prop of the NoteEditor: the server's note as of the last refetch
NoteProp == storage.dailyNotes[0]

\* Home.handleNoteChange(dateStr, updates)
HandleNoteChange(h, dateStr, updates) ==
    [h EXCEPT !.saveStatus = "saving",
              !.saveTimeout = [set |-> TRUE, dateStr |-> dateStr, updates |-> updates],
              !.asked = Assign(@, updates)]

\* handleInput in the list, through setContentHistory and the sync effect
TypeContent(k, newText) ==
    LET item == ItemAtPos(k)
        calls == <<UpdateItemV(items, item.id, [text |-> newText])>>
        h == SetAll(hist, isUndoRedoRef, calls)
        notify == h # hist /\ Stringify(h.present) # Stringify(items)
    IN  /\ newText # DomText(item.id)
        /\ SaveStep
        /\ hist' = h
        /\ dom' = [dom EXCEPT ![item.id] = newText]
        /\ pendingSave' = SyncEffect(h)
        /\ home' = IF notify THEN HandleNoteChange(home, NoteProp.date, [content |-> h.present])
                   ELSE home
        /\ last' = Event("Input", k, calls, newText)
        /\ UNCHANGED <<aliasVars, domVars, variant, items, isUndoRedoRef, resetPending, pruneTimers, now, trail,
                       focusText, storage, domVars>>

\* onChange of the focus-text input: setFocusText(e.target.value)
FocusTextChange(text) ==
    /\ text # focusText
    /\ SaveStep
    /\ focusText' = text
    /\ last' = EventOn("FocusTextChange", 0, items, <<>>, text)
    /\ UNCHANGED <<aliasVars, domVars, variant, items, dom, hist, isUndoRedoRef, resetPending, pendingSave,
                   pruneTimers, now, trail, home, storage>>

\* handleFocusTextBlur
FocusTextBlur ==
    /\ SaveStep
    /\ home' = IF focusText # NoteProp.focusText
                  THEN HandleNoteChange(home, NoteProp.date, [focusText |-> focusText])
                  ELSE home
    /\ last' = EventOn("FocusTextBlur", 0, items, <<>>, focusText)
    /\ UNCHANGED <<aliasVars, domVars, variant, items, dom, hist, isUndoRedoRef, resetPending, pendingSave,
                   pruneTimers, now, trail, focusText, storage, domVars>>

\* the callback of the timer of handleNoteChange: updateNoteMutation.mutate
SaveTimerFires ==
    LET request == [dateStr |-> home.saveTimeout.dateStr, updates |-> home.saveTimeout.updates]
    IN  /\ home.saveTimeout.set
        /\ home' = [home EXCEPT !.saveTimeout = NoTimer,
                                !.inFlight = @ \cup {request},
                                !.sent = Assign(@, request.updates)]
        /\ last' = EventOn("SaveTimerFires", 0, items, <<>>, request)
        /\ UNCHANGED <<aliasVars, domVars, variant, items, dom, hist, isUndoRedoRef, resetPending, pendingSave,
                       pruneTimers, now, steps, trail, focusText, storage, domVars>>

\* the PATCH succeeds: the server has merged the updates, onSuccess sets the
\* status and invalidates the queries, and the refetch delivers the note
SaveSuccess(request) ==
    LET stored == UpdateDailyNote(storage, request.dateStr, request.updates)
        note == stored.dailyNotes[request.dateStr]
    IN  /\ request \in home.inFlight
        /\ storage' = stored
        /\ home' = [home EXCEPT !.saveStatus = "saved", !.inFlight = @ \ {request}]
        /\ items' = note.content
        /\ dom' = RenderOver(items, note.content)
        /\ focusText' = IF note.focusText # NoteProp.focusText THEN note.focusText
                        ELSE focusText
        /\ pendingSave' = IF pendingSave.pending /\ pendingSave.content = note.content
                             THEN NoSave ELSE pendingSave
        /\ now' = IF ClockUsed THEN now + 1 ELSE now
        /\ last' = EventOn("SaveSuccess", 0, items, <<>>, request)
        /\ UNCHANGED <<aliasVars, domVars, variant, hist, isUndoRedoRef, resetPending, pruneTimers, steps, trail>>

\* SaveError that also rolls the editor back to the note the server holds
SaveErrorRollsBack(request) ==
    /\ request \in home.inFlight
    /\ home' = [home EXCEPT !.saveStatus = "offline", !.inFlight = @ \ {request}]
    /\ hist' = HistReset(items)
    /\ last' = EventOn("SaveError", 0, items, <<>>, [focusText |-> focusText, dom |-> dom])
    /\ UNCHANGED <<aliasVars, domVars, variant, items, dom, isUndoRedoRef, resetPending, pendingSave,
                   pruneTimers, now, steps, trail, focusText, storage, domVars>>

\* the PATCH fails: onError
SaveError(request) ==
    /\ request \in home.inFlight
    /\ home' = [home EXCEPT !.saveStatus = "offline", !.inFlight = @ \ {request}]
    /\ last' = EventOn("SaveError", 0, items, <<>>, [focusText |-> focusText, dom |-> dom])
    /\ UNCHANGED <<aliasVars, domVars, variant, items, dom, hist, isUndoRedoRef, resetPending, pendingSave,
                   pruneTimers, now, steps, trail, focusText, storage, domVars>>

InitSave == InitEditor(DocFlat, "v3")

NextSave ==
    \/ \E k \in Positions : \E newText \in Texts : TypeContent(k, newText)
    \/ \E text \in Texts : FocusTextChange(text)
    \/ FocusTextBlur
    \/ SaveTimerFires
    \/ \E request \in home.inFlight : SaveSuccess(request)
    \/ \E request \in home.inFlight : SaveError(request)

SpecSave == InitSave /\ [][NextSave]_vars

\* C25: once the debounce timer is no longer pending, whatever was handed to
\* handleNoteChange last, for every field, has been handed to the PATCH
\* mutation: a pending save is never dropped.
QuietAllSent == ~home.saveTimeout.set => home.sent = home.asked

\* a PATCH has just failed
SaveJustFailed == last.op = "SaveError"

\* a save is slow (in flight) or the last one failed
SaveSlowOrFailed == home.inFlight # {} \/ home.saveStatus = "offline"

\* the user can type in the list and in the focus-text input
CanEdit ==
    /\ \E k \in Positions : \E newText \in Texts : ENABLED TypeContent(k, newText)
    /\ \E text \in Texts : ENABLED FocusTextChange(text)

\* C26: a failed save sets the save status to 'offline' and leaves the
\* document tree, the element texts, the focus text and the history state
\* as they were; while a save is in flight or has failed the user can still
\* edit.
FailedSaveOnlySetsOffline ==
    /\ SaveJustFailed =>
          /\ home.saveStatus = "offline"
          /\ items = last.pre
          /\ hist = last.before
          /\ focusText = last.arg.focusText
          /\ dom = last.arg.dom
    /\ (SaveSlowOrFailed /\ steps < MaxEdits) => CanEdit

\* a save of edited content has just failed while undo history exists
FailedSaveWithHistory == SaveJustFailed /\ Len(hist.past) > 0

(***************************************************************************)
(* SpecAlias: the mutations of client/src/components/ListEditor.tsx        *)
(* (suffix 1; deleteItem and addItemAfter of unnamed/part_003:1032-1060    *)
(* are the same code) and deleteItem of unnamed/part_002 on JavaScript     *)
(* objects.  heap[a] is the ListItem object at address a; its children     *)
(* field, when present, is the array of the addresses of its children.     *)
(* Arrays are never written in place by this code, so an array is the      *)
(* sequence of its addresses.  refs holds the arrays the `items` prop and  *)
(* the history state point to; items and hist are their values.            *)
(***************************************************************************)
\* the tree an array of addresses stands for
RECURSIVE Value(_, _)
Value(h, arr) ==
    [i \in 1..Len(arr) |->
        LET o == h[arr[i]]
        IN  IF HasChildren(o) THEN WithChildren(o, Value(h, o.children))
            ELSE WithoutChildren(o)]

\* JSON.parse of a tree: every item becomes a new object
RECURSIVE Load(_, _)
Load(h, list) ==
    IF list = <<>> THEN [heap |-> h, arr |-> <<>>]
    ELSE LET it == Head(list)
             sub == IF HasChildren(it) THEN Load(h, it.children)
                    ELSE [heap |-> h, arr |-> <<>>]
             obj == IF HasChildren(it) THEN WithChildren(it, sub.arr) ELSE it
             h1 == Append(sub.heap, obj)
             rest == Load(h1, Tail(list))
         IN  [heap |-> rest.heap, arr |-> <<Len(h1)>> \o rest.arr]

\* ListEditor.tsx updateItem: updateRecursive
RECURSIVE UpdateRecursive1(_, _, _, _)
UpdateRecursive1(h, arr, id, updates) ==
    IF arr = <<>> THEN [heap |-> h, arr |-> <<>>]
    ELSE LET a == Head(arr)
             o == h[a]
         IN  IF o.id = id
                THEN LET h1 == Append(h, Merge(o, updates))
                         rest == UpdateRecursive1(h1, Tail(arr), id, updates)
                     IN  [heap |-> rest.heap, arr |-> <<Len(h1)>> \o rest.arr]
             ELSE IF HasChildren(o)
                THEN LET sub == UpdateRecursive1(h, o.children, id, updates)
                         h1 == Append(sub.heap, WithChildren(o, sub.arr))
                         rest == UpdateRecursive1(h1, Tail(arr), id, updates)
                     IN  [heap |-> rest.heap, arr |-> <<Len(h1)>> \o rest.arr]
             ELSE LET rest == UpdateRecursive1(h, Tail(arr), id, updates)
                  IN  [heap |-> rest.heap, arr |-> <<a>> \o rest.arr]

\* ListEditor.tsx deleteItem: deleteRecursive assigns item.children
RECURSIVE DeleteRecursive1(_, _, _)
DeleteRecursive1(h, arr, id) ==
    IF arr = <<>> THEN [heap |-> h, arr |-> <<>>]
    ELSE LET a == Head(arr)
             o == h[a]
         IN  IF o.id = id THEN DeleteRecursive1(h, Tail(arr), id)
             ELSE LET h1 == IF HasChildren(o)
                               THEN LET sub == DeleteRecursive1(h, o.children, id)
                                    IN  [sub.heap EXCEPT ![a] = WithChildren(@, sub.arr)]
                               ELSE h
                      rest == DeleteRecursive1(h1, Tail(arr), id)
                  IN  [heap |-> rest.heap, arr |-> <<a>> \o rest.arr]

\* ListEditor.tsx addItemAfter: addRecursive assigns item.children; n is the
\* address of newItem
RECURSIVE AddRecursive1(_, _, _, _)
AddRecursive1(h, arr, id, n) ==
    IF arr = <<>> THEN [heap |-> h, arr |-> <<>>]
    ELSE LET a == Head(arr)
             o == h[a]
             h1 == IF HasChildren(o)
                      THEN LET sub == AddRecursive1(h, o.children, id, n)
                           IN  [sub.heap EXCEPT ![a] = WithChildren(@, sub.arr)]
                      ELSE h
             rest == AddRecursive1(h1, Tail(arr), id, n)
         IN  [heap |-> rest.heap,
              arr |-> <<a>> \o (IF o.id = id THEN <<n>> ELSE <<>>) \o rest.arr]

\* part_002 deleteItem: deleteRecursive copies the items whose children
\* change; same tells that the array returned is the array given
RECURSIVE DeleteLoop2(_, _, _)
DeleteRecursive2(h, arr, id) ==
    LET loop == DeleteLoop2(h, arr, id)
    IN  IF loop.same THEN [heap |-> loop.heap, arr |-> arr, same |-> TRUE] ELSE loop

DeleteLoop2(h, arr, id) ==
    IF arr = <<>> THEN [heap |-> h, arr |-> <<>>, same |-> TRUE]
    ELSE LET a == Head(arr)
             o == h[a]
         IN  IF o.id = id
                THEN LET rest == DeleteLoop2(h, Tail(arr), id)
                     IN  [heap |-> rest.heap, arr |-> rest.arr, same |-> FALSE]
             ELSE LET sub == IF HasChildren(o) THEN DeleteRecursive2(h, o.children, id)
                             ELSE [heap |-> h, arr |-> <<>>, same |-> TRUE]
                  IN  IF sub.same
                         THEN LET rest == DeleteLoop2(sub.heap, Tail(arr), id)
                              IN  [heap |-> rest.heap, arr |-> <<a>> \o rest.arr,
                                   same |-> rest.same]
                         ELSE LET h1 == Append(sub.heap, WithChildren(o, sub.arr))
                                  rest == DeleteLoop2(h1, Tail(arr), id)
                              IN  [heap |-> rest.heap, arr |-> <<Len(h1)>> \o rest.arr,
                                   same |-> FALSE]

\* the values of the arrays a history state points to
HistValue(h, r) ==
    HistoryState([i \in 1..Len(r.past) |-> Value(h, r.past[i])],
                 Value(h, r.present),
                 [i \in 1..Len(r.future) |-> Value(h, r.future[i])])

\* the updater of set(newValue) on references: JSON.stringify compares the
\* values the two arrays have now
HistSetRefs(h, r, flag, newPresent) ==
    IF Stringify(Value(h, newPresent)) = Stringify(Value(h, r.present)) THEN r
    ELSE IF flag THEN r
    ELSE LET newPast == Append(r.past, r.present)
         IN  HistoryState(
                 IF Len(newPast) > MaxHistorySize THEN Tail(newPast) ELSE newPast,
                 newPresent,
                 <<>>)

\* onChange(result.arr) of a mutation that left the heap as result.heap
AliasCall(op, id, result) ==
    LET r == [items |-> refs.items,
              hist |-> HistSetRefs(result.heap, refs.hist, isUndoRedoRef, result.arr)]
    IN  /\ UserEvent
        /\ heap' = result.heap
        /\ refs' = r
        /\ items' = Value(result.heap, r.items)
        /\ hist' = HistValue(result.heap, r.hist)
        /\ last' = [op |-> op, id |-> id, pre |-> items, before |-> hist, arg |-> refs,
                    calls |-> <<Value(result.heap, result.arr)>>]
        /\ now' = now + 1
        /\ UNCHANGED <<variant, dom, isUndoRedoRef, resetPending, pendingSave, pruneTimers,
                       trail, home, focusText, storage, domVars>>

CallUpdateItem1(id, text) ==
    /\ variant = "v1"
    /\ AliasCall("updateItem", id, UpdateRecursive1(heap, refs.items, id, [text |-> text]))

CallDeleteItem1(id) ==
    /\ variant = "v1"
    /\ AliasCall("deleteItem", id, DeleteRecursive1(heap, refs.items, id))

CallAddItemAfter1(id) ==
    LET h1 == Append(heap, FreshItem)
    IN  /\ variant = "v1"
        /\ AliasCall("addItemAfter", id, AddRecursive1(h1, refs.items, id, Len(h1)))

CallDeleteItem2(id) ==
    /\ variant = "v2"
    /\ AliasCall("deleteItem", id, DeleteRecursive2(heap, refs.items, id))

\* the save round trip delivers the present content as a new note.content
Refetch ==
    LET loaded == Load(heap, hist.present)
    IN  /\ items # hist.present
        /\ heap' = loaded.heap
        /\ refs' = [refs EXCEPT !.items = loaded.arr]
        /\ items' = Value(loaded.heap, loaded.arr)
        /\ last' = NoEvent
        /\ UNCHANGED <<variant, dom, hist, isUndoRedoRef, resetPending, pendingSave,
                       pruneTimers, now, steps, trail, home, focusText, storage, domVars>>

\* NoteEditor mounted on a note: note.content is one array, and the history
\* hook's present is that array
InitAlias ==
    \E v \in {"v1", "v2"} : \E doc \in {DocNested, DocDeep} :
        LET loaded == Load(<<>>, doc)
        IN  /\ variant = v
            /\ items = doc
            /\ dom = [i \in IdsOf(doc) |-> Flatten(doc)[RenderDom(doc)[i]].text]
            /\ hist = HistoryState(<<>>, doc, <<>>)
            /\ isUndoRedoRef = FALSE
            /\ resetPending = FALSE
            /\ pendingSave = NoSave
            /\ pruneTimers = {}
            /\ now = 1
            /\ steps = 0
            /\ last = NoEvent
            /\ trail = <<>>
            /\ home = InitHome
            /\ focusText = <<>>
            /\ storage = StorageWith(doc)
            /\ heap = loaded.heap
            /\ refs = [items |-> loaded.arr,
                       hist |-> HistoryState(<<>>, loaded.arr, <<>>)]
            /\ waiters = {}
            /\ selection = NoSelection

NextAlias ==
    \/ \E k \in Positions : \E text \in Texts : CallUpdateItem1(ItemAtPos(k).id, text)
    \/ \E k \in Positions : CallDeleteItem1(ItemAtPos(k).id)
    \/ \E k \in Positions : CallAddItemAfter1(ItemAtPos(k).id)
    \/ \E k \in Positions : CallDeleteItem2(ItemAtPos(k).id)
    \/ Refetch

SpecAlias == InitAlias /\ [][NextAlias]_vars

\* C27: a mutation leaves the tree it was given, and every snapshot that was
\* in the history's past or future when it was called, deep-equal to what
\* they were before the call.
MutationsLeaveInputsIntact ==
    last.op # "none" =>
        /\ Value(heap, last.arg.items) = last.pre
        /\ \A i \in 1..Len(last.arg.hist.past) :
              Value(heap, last.arg.hist.past[i]) = last.before.past[i]
        /\ \A i \in 1..Len(last.arg.hist.future) :
              Value(heap, last.arg.hist.future[i]) = last.before.future[i]

(***************************************************************************)
(* SpecStorage: the server.  MemStorage (its code is quoted in replit.md)  *)
(* and the routes that create daily notes from the template.  Dates are    *)
(* day numbers; storage.today is the date `new Date()` gives the server.   *)
(* randomUUID() is a counter: the n-th uuid handed out is n.               *)
(***************************************************************************)
WindowDays == 2        \* days initialize() creates notes for (8 in the code)
MaxDate == 3           \* latest date a request names
MaxRequests == 3       \* requests served in one behaviour

\* `template-${k}`, the ids of DEFAULT_TEMPLATE: outside item-<clock> and
\* note-<uuid> alike
TemplateId(k) == 1000 + k

\* `note-${randomUUID()}` for the uuid u
NoteId(u) == 0 - u

\* DEFAULT_TEMPLATE, cut down to a section with two entries and a section
\* without entries
DefaultTemplate ==
    << WithChildren(Item(TemplateId(1), <<"a">>, 0),
                    << Item(TemplateId(11), <<"a">>, 1), Item(TemplateId(12), <<"b">>, 1) >>),
       Item(TemplateId(2), <<"b">>, 0) >>

\* templates the template editor sends: the default one edited (an item
\* added by Enter), and a single item
Templates ==
    { DefaultTemplate \o << Item(MintId(1), <<>>, 0) >>,
      << Item(TemplateId(1), <<"a", "b">>, 0) >> }

\* a MemStorage just constructed
NewStorage == [template |-> NoTemplate, dailyNotes |-> <<>>, uuids |-> 0, today |-> 0]

\* cloneTemplate(content), the first uuid handed out being u + 1: ids are
\* minted item by item, each item before its children
RECURSIVE CloneTemplate(_, _)
CloneTemplate(content, u) ==
    IF content = <<>> THEN <<>>
    ELSE LET item == Head(content)
             used == 1 + NodeCount(ChildrenOf(item))
             clone == IF HasChildren(item)
                         THEN [id |-> NoteId(u + 1), text |-> item.text, level |-> item.level,
                               children |-> CloneTemplate(item.children, u + 1)]
                         ELSE [id |-> NoteId(u + 1), text |-> item.text, level |-> item.level]
         IN  <<clone>> \o CloneTemplate(Tail(content), u + used)

\* JSON.parse(JSON.stringify(content)): new objects with the same fields; an
\* undefined children is not written
RECURSIVE JsonCopy(_)
JsonCopy(content) ==
    [i \in 1..Len(content) |->
        IF HasChildren(content[i])
            THEN [id |-> content[i].id, text |-> content[i].text, level |-> content[i].level,
                  children |-> JsonCopy(content[i].children)]
            ELSE [id |-> content[i].id, text |-> content[i].text, level |-> content[i].level]]

\* createDailyNote({ date, focusText: '', content: cloneTemplate(template) })
CreateFromTemplate(st, date) ==
    LET content == CloneTemplate(st.template.content, st.uuids)
        used == NodeCount(content)
    IN  [st EXCEPT !.dailyNotes =
                       [d \in DOMAIN @ \cup {date} |->
                           IF d = date
                               THEN DailyNote(st.uuids + used + 1, date, <<>>, content)
                               ELSE @[d]],
                   !.uuids = @ + used + 1]

\* createDailyNote({ date, focusText: '', content: JSON.parse(JSON.stringify(template)) })
CreateFromJson(st, date) ==
    [st EXCEPT !.dailyNotes =
                   [d \in DOMAIN @ \cup {date} |->
                       IF d = date
                           THEN DailyNote(st.uuids + 1, date, <<>>, JsonCopy(st.template.content))
                           ELSE @[d]],
               !.uuids = @ + 1]

\* a loop over the dates from..to that creates, with create, the notes that
\* do not exist
RECURSIVE EnsureCloned(_, _, _), EnsureCopied(_, _, _)
EnsureCloned(st, from, to) ==
    IF from > to THEN st
    ELSE EnsureCloned(IF from \in DOMAIN st.dailyNotes THEN st
                      ELSE CreateFromTemplate(st, from), from + 1, to)

EnsureCopied(st, from, to) ==
    IF from > to THEN st
    ELSE EnsureCopied(IF from \in DOMAIN st.dailyNotes THEN st
                      ELSE CreateFromJson(st, from), from + 1, to)

\* updateTemplate: the notes of the dates from..to that exist get a clone of
\* the template as their content (note.content = cloneTemplate(...))
RECURSIVE Regenerate(_, _, _)
Regenerate(st, from, to) ==
    IF from > to THEN st
    ELSE IF from \notin DOMAIN st.dailyNotes THEN Regenerate(st, from + 1, to)
    ELSE LET content == CloneTemplate(st.template.content, st.uuids)
         IN  Regenerate([st EXCEPT !.dailyNotes[from].content = content,
                                   !.uuids = @ + NodeCount(content)],
                        from + 1, to)

\* a request served: the storage it leaves, and for observation the template
\* its notes were created from, the dates that had a note and the ids held
Serve(op, st, templateUsed) ==
    /\ steps < MaxRequests
    /\ steps' = steps + 1
    /\ storage' = st
    /\ last' = [op |-> op, template |-> templateUsed, had |-> DOMAIN storage.dailyNotes,
                ids |-> UNION {IdsOf(storage.dailyNotes[d].content) :
                                   d \in DOMAIN storage.dailyNotes}]
    /\ UNCHANGED <<variant, items, dom, hist, isUndoRedoRef, resetPending, pendingSave,
                   pruneTimers, now, trail, home, focusText, aliasVars, domVars>>

\* MemStorage.initialize(), awaited by registerRoutes before any route exists
Initialize ==
    LET withTemplate == [storage EXCEPT !.template = Template(DefaultTemplate), !.uuids = @ + 1]
    IN  /\ ~storage.template.set
        /\ Serve("initialize",
                 EnsureCloned(withTemplate, storage.today, storage.today + WindowDays - 1),
                 DefaultTemplate)

\* PUT /api/template: MemStorage.updateTemplate
PutTemplate(content) ==
    LET withTemplate == [storage EXCEPT !.template = Template(content)]
        tomorrow == storage.today + 1
        regenerated == Regenerate(withTemplate, tomorrow, MaxDate)
    IN  /\ storage.template.set
        /\ Serve("updateTemplate",
                 EnsureCloned(regenerated, tomorrow, storage.today + WindowDays - 1),
                 content)

\* GET /api/notes/:date
GetNote(date) ==
    /\ storage.template.set
    /\ Serve("getNote", EnsureCopied(storage, date, date), storage.template.content)

\* GET /api/notes/range?start=&end=
GetRange(start, end) ==
    /\ storage.template.set
    /\ Serve("getRange", EnsureCopied(storage, start, end), storage.template.content)

\* midnight passes on the server
DayPasses ==
    /\ storage.today + WindowDays - 1 < MaxDate
    /\ storage' = [storage EXCEPT !.today = @ + 1]
    /\ last' = NoEvent
    /\ UNCHANGED <<variant, items, dom, hist, isUndoRedoRef, resetPending, pendingSave,
                   pruneTimers, now, steps, trail, home, focusText, aliasVars, domVars>>

InitStorage ==
    /\ variant = "v3"
    /\ items = <<>>
    /\ dom = <<>>
    /\ hist = HistoryState(<<>>, <<>>, <<>>)
    /\ isUndoRedoRef = FALSE
    /\ resetPending = FALSE
    /\ pendingSave = NoSave
    /\ pruneTimers = {}
    /\ now = 1
    /\ steps = 0
    /\ last = NoEvent
    /\ trail = <<>>
    /\ home = InitHome
    /\ focusText = <<>>
    /\ storage = NewStorage
    /\ heap = <<>>
    /\ refs = <<>>
    /\ waiters = {}
    /\ selection = NoSelection

NextStorage ==
    \/ Initialize
    \/ \E content \in Templates : PutTemplate(content)
    \/ \E date \in 0..MaxDate : GetNote(date)
    \/ \E start \in 0..MaxDate : \E end \in start..MaxDate : GetRange(start, end)
    \/ DayPasses

SpecStorage == InitStorage /\ [][NextStorage]_vars

\* the dates whose note the last request created
CreatedDates == DOMAIN storage.dailyNotes \ last.had

\* C28: every daily note a request creates from the template holds a deep
\* copy of the template (same texts, levels and shape) in which every item
\* has an id of its own that is no id of the template and no id the storage
\* held before.
CreatedNotesGetFreshIds ==
    last.op # "none" =>
        \A d \in CreatedDates :
            LET content == storage.dailyNotes[d].content
            IN  /\ WithoutIds(content) = WithoutIds(last.template)
                /\ Cardinality(IdsOf(content)) = NodeCount(content)
                /\ IdsOf(content) \cap IdsOf(last.template) = {}
                /\ IdsOf(content) \cap last.ids = {}

(***************************************************************************)
(* The editor of one date whose note is replaced by a note with another    *)
(* id (checked under SpecSwitch): the server has lost its in-memory        *)
(* storage and created the note of the date again.                         *)
(***************************************************************************)
\* the content of the re-created note: cloneTemplate gives every item an id
\* no other note has
DocOther == << Item(-21, <<"b", "a">>, 0), Item(-22, <<"a">>, 0) >>

SwitchDocs == {DocFlat, DocNested}

NoteSwitched == storage.dailyNotes[0].id # 1

\* NoteEditor rendered with a note of another id: ListEditor gets the new
\* note.content, the reset effect calls resetHistory(note.content), the sync
\* effect finds contentHistory equal to note.content; the handleBlur timers
\* and the debounced save of Home stay as they are
SwitchNote ==
    /\ ~NoteSwitched
    /\ storage' = [storage EXCEPT !.dailyNotes = [d \in {0} |-> DailyNote(2, 0, <<>>, DocOther)],
                                  !.uuids = 2]
    /\ items' = DocOther
    /\ dom' = RenderOver(items, DocOther)
    /\ hist' = HistReset(DocOther)
    /\ last' = EventOn("Switch", 0, items, <<>>, <<>>)
    /\ UNCHANGED <<home, focusText, aliasVars, domVars, variant, isUndoRedoRef, resetPending,
                   pendingSave, pruneTimers, now, steps, trail>>

InitSwitch == \E d \in SwitchDocs : InitEditor(d, "v3")

NextSwitch ==
    \/ \E k \in Positions : \E s \in 0..Len(DomText(ItemAtPos(k).id)) :
           \E e \in s..Len(DomText(ItemAtPos(k).id)) : Enter(k, s, e)
    \/ \E k \in Positions : KeyBackspace3(k)
    \/ \E k \in Positions : \E newText \in Texts : Input(k, newText)
    \/ \E k \in Positions : Blur(k)
    \/ \E timer \in pruneTimers : PruneTimeout(timer)
    \/ Undo
    \/ Redo
    \/ FlagTimeout
    \/ Sync
    \/ Tick
    \/ SwitchNote

SpecSwitch == InitSwitch /\ [][NextSwitch]_vars

\* the tree holds an item the previously shown note was seeded with
OfPreviousNote(tree) ==
    \E d \in SwitchDocs : IdsOf(tree) \cap IdsOf(d) # {}

\* the reset effect has run for the new note and the hook has not been called
\* since
JustSwitched == last.op = "Switch"

SwitchResets == JustSwitched => hist = HistReset(DocOther)

\* after the switch no entry of past, which undo would restore, is a tree of
\* the previously shown note
PastFreeOfPreviousNote ==
    NoteSwitched => \A i \in 1..Len(hist.past) : ~OfPreviousNote(hist.past[i])

\* C30: reset(tree) empties past and future and sets present to tree, it
\* runs whenever the editor is given a different note, and after the switch
\* undo cannot restore content of the previously shown note.
SwitchForgetsPreviousNote == SwitchResets /\ PastFreeOfPreviousNote

(***************************************************************************)
(* Backspace on an empty element (checked under SpecBackspace), on notes   *)
(* as the server stores them: PATCH /api/notes/:date keeps any content, so *)
(* a note saved by part_002, whose Tab changes only the level, can hold    *)
(* root items above level 0.                                               *)
(***************************************************************************)
\* a single empty item at level 2
DocSole == << Item(-1, <<>>, 2) >>

BackspaceDocs == {DocSole, DocLevels, DocNested}

InitBackspace ==
    \E v \in {"v2", "v3"} : \E doc \in BackspaceDocs : InitEditor(doc, v)

NextBackspace ==
    \/ \E k \in Positions : KeyBackspace2(k)
    \/ \E k \in Positions : KeyBackspace3(k)
    \/ \E k \in Positions : \E newText \in Texts : Input(k, newText)
    \/ Sync

SpecBackspace == InitBackspace /\ [][NextBackspace]_vars

\* Backspace at the start of an empty element of an item above level 0
IsBackspaceOnIndented == IsBackspaceOnEmpty /\ EventItem(last).level > MinLevel

\* C31: Backspace with the caret at the start of an empty item whose level
\* is greater than 0 keeps the item and lowers its level by one, also when
\* it is the only item of the document.
BackspaceOutdentsIndented ==
    IsBackspaceOnIndented =>
        /\ last.calls # <<>>
        /\ NodeCount(ResultOf(last)) = NodeCount(last.pre)
        /\ NodesWithId(ResultOf(last), last.id) # {}
        /\ \A n \in NodesWithId(ResultOf(last), last.id) :
               n.level = EventItem(last).level - 1

\* the last event was a key handled by handleKeyDown
KeyOps ==
    {"Enter", "Tab", "ShiftTab", "Backspace", "Delete", "DeleteItem", "MoveUp", "MoveDown",
     "Duplicate"}

IsKeyEvent == "pos" \in DOMAIN last /\ last.op \in KeyOps

\* C32: one key event calls onChange at most once, and a single undo() after
\* it returns to the tree that existed before the key was pressed.
OneKeyOneHistoryEntry ==
    IsKeyEvent =>
        /\ Len(last.calls) <= 1
        /\ hist # last.before => HistUndo(hist).present = last.before.present

\* the handleBlur timer of an item has fired right after an input event on
\* that item's element: the element had regained the focus and was typed
\* into, and no blur or key has followed
PruneFiredOnFocusedItem ==
    /\ last.op = "Prune"
    /\ last.prev.op = "Input"
    /\ last.prev.id = last.id

\* C33: the deferred pruning of an item is cancelled when the item regains
\* the focus or is edited within the grace period: an item that is focused
\* when its timer fires is not deleted.
FocusedItemNotPruned == PruneFiredOnFocusedItem => last.calls = <<>>

(***************************************************************************)
(* waitForElement (checked under SpecWait and, for termination, under      *)
(* SpecWaitFair): Enter creates an item and waits for its element, which   *)
(* React registers in itemRefs once the new note.content is rendered.      *)
(***************************************************************************)
DefaultMaxAttempts == 20
Null == 0

\* checkElement that gives up one check late (attempts > maxAttempts)
CheckElementOneMore(w) ==
    IF w.itemId \in DOMAIN dom
        THEN [w EXCEPT !.settled = TRUE, !.element = w.itemId, !.checks = @ + 1]
    ELSE IF w.attempts + 1 > w.maxAttempts
        THEN [w EXCEPT !.settled = TRUE, !.element = Null, !.attempts = @ + 1,
                       !.checks = @ + 1]
    ELSE [w EXCEPT !.attempts = @ + 1, !.checks = @ + 1]

\* one run of checkElement of the promise w
CheckElement(w) ==
    IF w.itemId \in DOMAIN dom
        THEN [w EXCEPT !.settled = TRUE, !.element = w.itemId, !.checks = @ + 1]
    ELSE IF w.attempts + 1 >= w.maxAttempts
        THEN [w EXCEPT !.settled = TRUE, !.element = Null, !.attempts = @ + 1,
                       !.checks = @ + 1]
    ELSE [w EXCEPT !.attempts = @ + 1, !.checks = @ + 1]

\* waitForElement(itemId, maxAttempts): the first check runs within the call
WaitForElement(itemId, maxAttempts) ==
    CheckElement([itemId |-> itemId, maxAttempts |-> maxAttempts, attempts |-> 0,
                  checks |-> 0, settled |-> FALSE, element |-> Null])

\* Enter with a caret at the end of the text, and the waitForElement that
\* follows updateAndAddAfter
EnterAndWait(k) ==
    LET item == ItemAtPos(k)
        text == DomText(item.id)
        newItem == Item(MintId(now), <<>>, item.level)
        calls == <<UpdateAndAddAfterV(items, item.id, [text |-> text], newItem)>>
    IN  /\ UserEvent
        /\ hist' = SetAll(hist, isUndoRedoRef, calls)
        /\ pendingSave' = SyncEffect(hist')
        /\ waiters' = waiters \cup {WaitForElement(newItem.id, DefaultMaxAttempts)}
        /\ last' = Event("Enter", k, calls, [s |-> Len(text), e |-> Len(text), text |-> text])
        /\ UNCHANGED <<home, focusText, storage, aliasVars, selection, variant, items, dom,
                       isUndoRedoRef, resetPending, pruneTimers, now, trail>>

Polling == {w \in waiters : ~w.settled}

\* an animation frame: every checkElement handed to requestAnimationFrame runs
AnimationFrame ==
    /\ Polling # {}
    /\ waiters' = {IF w.settled THEN w ELSE CheckElement(w) : w \in waiters}
    /\ UNCHANGED <<home, focusText, storage, aliasVars, selection, variant, items, dom, hist,
                   isUndoRedoRef, resetPending, pendingSave, pruneTimers, now, steps, last,
                   trail>>

InitWait == InitEditor(DocFlat, "v2")

NextWait ==
    \/ \E k \in Positions : EnterAndWait(k)
    \/ AnimationFrame
    \/ Sync
    \/ Tick

SpecWait == InitWait /\ [][NextWait]_vars

\* the browser runs the callbacks of requestAnimationFrame
SpecWaitFair == SpecWait /\ WF_vars(AnimationFrame)

\* no promise has run more checks than maxAttempts; one settled with null has
\* run exactly maxAttempts; one settled with an element holds the registered
\* element of its item
WaitBounded ==
    \A w \in waiters :
        /\ w.checks <= w.maxAttempts
        /\ (w.settled /\ w.element = Null) => w.checks = w.maxAttempts
        /\ (w.settled /\ w.element # Null) => (w.element = w.itemId /\ w.itemId \in DOMAIN dom)

\* a settled promise is never checked again
SettledStaysSettled == [][\A w \in waiters : w.settled => w \in waiters']_vars

\* C34: waiting for an element always terminates: the promise resolves with
\* the element at the first check that finds it registered, and with null
\* after maxAttempts (20) checks, and is not polled after that.
WaitAlwaysSettles ==
    /\ []WaitBounded
    /\ SettledStaysSettled
    /\ (Polling # {}) ~> (Polling = {})

\* a promise has given up: 20 checks, the element never registered
WaitGaveUp ==
    \E w \in waiters : w.settled /\ w.element = Null /\ w.checks = DefaultMaxAttempts

(***************************************************************************)
(* The cursor position codec (checked under SpecCaret): a caret or         *)
(* selection is captured on the editable element of an item, the element's *)
(* content is rebuilt, and the requestAnimationFrame callback restores it, *)
(* with setCursorPosition (part_002) or with restoreSelection and its      *)
(* fallback (part_003, lib/selectionRange.ts).  A node is a text node of a  *)
(* length or an element with child nodes; paths are 1-based here.          *)
(***************************************************************************)
MaxTextLen == 2
MaxChildNodes == 2

TextNode(n) == [text |-> TRUE, len |-> n]
Element(kids) == [text |-> FALSE, kids |-> kids]

\* node.childNodes
ChildNodes(node) == IF node.text THEN <<>> ELSE node.kids

LeafNodes == {TextNode(n) : n \in 0..MaxTextLen} \cup {Element(<<>>)}
InnerNodes == LeafNodes \cup {Element(<<TextNode(1)>>), Element(<<Element(<<>>), TextNode(2)>>)}

\* the contents an editable element can have
Surfaces ==
    {Element(kids) : kids \in UNION {[1..n -> InnerNodes] : n \in 0..MaxChildNodes}}

NoNode == [found |-> FALSE]
Found(node) == [found |-> TRUE, node |-> node]

\* getNodeByPath (part_002) and getNodeFromPath (selectionRange.ts)
RECURSIVE GetNodeByPath(_, _)
GetNodeByPath(root, path) ==
    IF path = <<>> THEN Found(root)
    ELSE IF path[1] < 1 \/ path[1] > Len(ChildNodes(root)) THEN NoNode
    ELSE GetNodeByPath(ChildNodes(root)[path[1]], Tail(path))

\* getContainerSize; clampOffsetForNode is Math.min(offset, this)
GetContainerSize(node) == IF node.text THEN node.len ELSE Len(node.kids)

ClampOffsetForNode(node, offset) == Min(offset, GetContainerSize(node))

\* node.textContent.length
RECURSIVE TextLength(_)
RECURSIVE TextLengthOf(_)
TextLengthOf(nodes) ==
    IF nodes = <<>> THEN 0 ELSE TextLength(Head(nodes)) + TextLengthOf(Tail(nodes))
TextLength(node) == IF node.text THEN node.len ELSE TextLengthOf(node.kids)

\* the paths of the nodes below root, in document order
RECURSIVE NodePathsFrom(_, _, _)
NodePathsFrom(node, prefix, i) ==
    IF i > Len(ChildNodes(node)) THEN <<>>
    ELSE <<Append(prefix, i)>>
         \o NodePathsFrom(ChildNodes(node)[i], Append(prefix, i), 1)
         \o NodePathsFrom(node, prefix, i + 1)

NodePaths(root) == <<<<>>>> \o NodePathsFrom(root, <<>>, 1)

\* the boundary points of the element: a container and an offset within it
BoundaryPoints(root) ==
    {p \in [path : {NodePaths(root)[i] : i \in 1..Len(NodePaths(root))},
            offset : 0..Max(MaxTextLen, MaxChildNodes)] :
        p.offset <= GetContainerSize(GetNodeByPath(root, p.path).node)}

\* preCaretRange.toString().length: the text before a boundary point
RECURSIVE TextBefore(_, _, _)
TextBefore(node, path, offset) ==
    IF path = <<>>
        THEN IF node.text THEN offset ELSE TextLengthOf(SubSeq(node.kids, 1, offset))
    ELSE TextLengthOf(SubSeq(node.kids, 1, path[1] - 1))
         + TextBefore(node.kids[path[1]], Tail(path), offset)

\* captureCaretPosition for a caret at the boundary point
CaptureCaretPosition(element, point) ==
    [containerPath |-> point.path,
     offset |-> point.offset,
     textOffset |-> TextBefore(element, point.path, point.offset),
     isAtEnd |-> TextBefore(element, point.path, point.offset) >= TextLength(element)]

\* serializeSelection for a selection from anchor to focus
SerializeSelection(anchor, focus) ==
    [anchor |-> [path |-> anchor.path, offset |-> anchor.offset],
     focus |-> [path |-> focus.path, offset |-> focus.offset]]

\* the text nodes a TreeWalker(element, SHOW_TEXT) visits
TextNodePaths(element) ==
    SelectSeq(NodePaths(element), LAMBDA p : p # <<>> /\ GetNodeByPath(element, p).node.text)

\* where a caret was put: the container (a path in `surface`) and the offset
Placed(surface, path, offset, how) ==
    [surface |-> surface, path |-> path, offset |-> offset, how |-> how]

\* findTextPosition; ensureTextNode appends an empty text node to an element
\* without text nodes
RECURSIVE WalkText(_, _, _, _, _)
WalkText(element, textOffset, placeAtEnd, i, accumulated) ==
    LET paths == TextNodePaths(element)
        lengthAt(j) == GetNodeByPath(element, paths[j]).node.len
    IN  IF i <= Len(paths)
            THEN IF ~placeAtEnd /\ accumulated + lengthAt(i) >= textOffset
                    THEN Placed(element, paths[i], Min(textOffset - accumulated, lengthAt(i)),
                                "text")
                    ELSE WalkText(element, textOffset, placeAtEnd, i + 1,
                                  accumulated + lengthAt(i))
        ELSE IF Len(paths) > 0
            THEN Placed(element, paths[Len(paths)],
                        IF placeAtEnd THEN lengthAt(Len(paths))
                        ELSE Min(textOffset, lengthAt(Len(paths))),
                        IF placeAtEnd THEN "end" ELSE "text")
        ELSE Placed(Element(Append(element.kids, TextNode(0))), <<Len(element.kids) + 1>>, 0,
                    IF placeAtEnd THEN "end" ELSE "text")

FindTextPosition(element, textOffset, placeAtEnd) ==
    WalkText(element, textOffset, placeAtEnd, 1, 0)

\* range.setStart(node, offset) throws IndexSizeError beyond the node's
\* length; setCursorPosition catches it and only focuses the element
SetStart(placed) ==
    IF placed.offset > GetContainerSize(GetNodeByPath(placed.surface, placed.path).node)
           \/ placed.offset < 0
        THEN [threw |-> TRUE, surface |-> placed.surface]
        ELSE [threw |-> FALSE, surface |-> placed.surface, path |-> placed.path,
              offset |-> placed.offset, how |-> placed.how]

\* setCursorPosition(element, position, atEnd) with a SavedCaretPosition
SetCursorPosition(element, position, atEnd) ==
    LET preferEnd == position.isAtEnd \/ atEnd
        container == GetNodeByPath(element, position.containerPath)
    IN  IF container.found
            THEN LET maxOffset == GetContainerSize(container.node)
                 IN  SetStart(Placed(element, position.containerPath,
                                     IF preferEnd THEN maxOffset
                                     ELSE Min(position.offset, maxOffset),
                                     "path"))
            ELSE SetStart(FindTextPosition(element, position.textOffset, preferEnd))

\* setCursorPosition(element, position, atEnd) with a number
SetCursorPositionAt(element, position, atEnd) ==
    SetStart(FindTextPosition(element, position, atEnd))

\* restoreSelection(root, serialized): FALSE, or the base and extent it set
RestoreSelection(root, serialized) ==
    LET anchorNode == GetNodeByPath(root, serialized.anchor.path)
        focusNode == GetNodeByPath(root, serialized.focus.path)
    IN  IF ~anchorNode.found \/ ~focusNode.found THEN [ok |-> FALSE]
        ELSE [ok |-> TRUE,
              anchor |-> SetStart(Placed(root, serialized.anchor.path,
                             ClampOffsetForNode(anchorNode.node, serialized.anchor.offset),
                             "path")),
              focus |-> SetStart(Placed(root, serialized.focus.path,
                             ClampOffsetForNode(focusNode.node, serialized.focus.offset),
                             "path"))]

\* selection: stage "idle" | "captured" | "rebuilt" | "restored"
Stage(stage, surface) == [saved |-> stage # "idle", stage |-> stage, surface |-> surface]

CaretStep ==
    UNCHANGED <<variant, items, dom, hist, isUndoRedoRef, resetPending, pendingSave,
                pruneTimers, now, steps, last, trail, home, focusText, storage, aliasVars,
                waiters>>

\* part_002, Tab and the other keys that re-render: captureCaretPosition
CaptureCaret(point) ==
    /\ selection.stage = "idle"
    /\ selection' = Assign(Stage("captured", selection.surface),
                        [caret |-> CaptureCaretPosition(selection.surface, point)])
    /\ CaretStep

\* part_003, Tab and Shift+Tab: serializeSelection
CaptureSelection(anchor, focus) ==
    /\ selection.stage = "idle"
    /\ selection' = Assign(Stage("captured", selection.surface),
                        [range |-> SerializeSelection(anchor, focus)])
    /\ CaretStep

\* React renders the element again, or the user types, before the frame
Rebuild(surface) ==
    /\ selection.stage = "captured"
    /\ selection' = [selection EXCEPT !.stage = "rebuilt", !.surface = surface]
    /\ CaretStep

\* part_002, the requestAnimationFrame callback:
\* setCursorPosition(element, savedCaret, savedCaret.isAtEnd)
RestoreCaret ==
    /\ selection.stage = "rebuilt"
    /\ "caret" \in DOMAIN selection
    /\ LET result == SetCursorPosition(selection.surface, selection.caret,
                                       selection.caret.isAtEnd)
       IN  selection' = Assign(selection,
                            [stage |-> "restored", result |-> result])
    /\ CaretStep

\* part_003, the requestAnimationFrame callback:
\* restoreSelection(element, savedSelection) or setCursorPosition(element, 0, true)
RestoreRange ==
    /\ selection.stage = "rebuilt"
    /\ "range" \in DOMAIN selection
    /\ LET restored == RestoreSelection(selection.surface, selection.range)
           result == IF restored.ok THEN restored.focus
                     ELSE SetCursorPositionAt(selection.surface, 0, TRUE)
       IN  selection' = Assign(selection,
                            [stage |-> "restored", restored |-> restored,
                             result |-> result])
    /\ CaretStep

InitCaret ==
    \E surface \in Surfaces :
        /\ variant = "v2"
        /\ items = DocFlat
        /\ dom = [i \in IdsOf(DocFlat) |-> Flatten(DocFlat)[RenderDom(DocFlat)[i]].text]
        /\ hist = HistoryState(<<>>, DocFlat, <<>>)
        /\ isUndoRedoRef = FALSE
        /\ resetPending = FALSE
        /\ pendingSave = NoSave
        /\ pruneTimers = {}
        /\ now = 1
        /\ steps = 0
        /\ last = NoEvent
        /\ trail = <<>>
        /\ home = InitHome
        /\ focusText = <<>>
        /\ storage = StorageWith(DocFlat)
        /\ heap = <<>>
        /\ refs = <<>>
        /\ waiters = {}
        /\ selection = Stage("idle", surface)

NextCaret ==
    \/ \E point \in BoundaryPoints(selection.surface) : CaptureCaret(point)
    \/ \E anchor, focus \in BoundaryPoints(selection.surface) : CaptureSelection(anchor, focus)
    \/ \E surface \in Surfaces : Rebuild(surface)
    \/ RestoreCaret
    \/ RestoreRange

SpecCaret == InitCaret /\ [][NextCaret]_vars

\* the caret was restored on the rebuilt surface
CaretRestored == selection.stage = "restored"

\* the restored point lies within its node
WithinNode(point) ==
    /\ ~point.threw
    /\ point.offset >= 0
    /\ point.offset <= GetContainerSize(GetNodeByPath(point.surface, point.path).node)

\* the restored point is in the node of the saved path, at the saved offset
\* clamped to the node's length
AtSavedPath(point, path, offset) ==
    /\ point.path = path
    /\ point.offset = Min(offset, GetContainerSize(GetNodeByPath(selection.surface, path).node))

\* the restored point is what the fallback chain gives: the end of all text
\* with the flag, else the text offset nearest to the saved one
AtFallback(point, textOffset, atEnd) ==
    /\ GetNodeByPath(point.surface, point.path).node.text
    /\ TextBefore(point.surface, point.path, point.offset)
          = IF atEnd THEN TextLength(point.surface)
            ELSE Min(textOffset, TextLength(point.surface))

CaretRestoredBySetCursorPosition ==
    LET caret == selection.caret
    IN  /\ WithinNode(selection.result)
        /\ IF GetNodeByPath(selection.surface, caret.containerPath).found
              THEN AtSavedPath(selection.result, caret.containerPath, caret.offset)
              ELSE AtFallback(selection.result, caret.textOffset, caret.isAtEnd)

RangeRestoredByRestoreSelection ==
    LET range == selection.range
        resolves == /\ GetNodeByPath(selection.surface, range.anchor.path).found
                    /\ GetNodeByPath(selection.surface, range.focus.path).found
    IN  /\ WithinNode(selection.result)
        /\ selection.restored.ok = resolves
        /\ resolves =>
              /\ WithinNode(selection.restored.anchor)
              /\ AtSavedPath(selection.restored.anchor, range.anchor.path, range.anchor.offset)
              /\ AtSavedPath(selection.restored.focus, range.focus.path, range.focus.offset)

\* C35: restoring a saved caret or selection never fails: a path that
\* resolves puts the caret in that node at min(saved offset, node length);
\* one that does not makes restoreSelection return false and
\* setCursorPosition fall back to the end of the content (flag set) or to
\* the nearest text offset; the offset never exceeds the node's length.
CaretRestoredWithinNode ==
    CaretRestored =>
        /\ "caret" \in DOMAIN selection => CaretRestoredBySetCursorPosition
        /\ "range" \in DOMAIN selection => RangeRestoredByRestoreSelection

(***************************************************************************)
(* The editor on documents whose levels equal the depth of their items     *)
(* (checked under SpecLevels): the operations of Spec, from such documents *)
(* only.                                                                   *)
(***************************************************************************)
\* every item of the list is at level `depth`, its children one deeper
RECURSIVE LevelIsDepthFrom(_, _)
LevelIsDepthFrom(list, depth) ==
    \A i \in 1..Len(list) :
        /\ list[i].level = depth
        /\ LevelIsDepthFrom(ChildrenOf(list[i]), depth + 1)

LevelIsDepth(tree) == LevelIsDepthFrom(tree, 0)

LevelCases ==
    {[doc |-> d, variant |-> "v2"] : d \in {DocEmpty, DocNested, DocFlat}}
    \cup {[doc |-> d, variant |-> "v3"] : d \in {DocNested, DocDeep}}

InitLevels == \E c \in LevelCases : InitEditor(c.doc, c.variant)

SpecLevels == InitLevels /\ [][Next]_vars

\* C36: from a document in which every root item has level 0 and every
\* child the level of its parent plus one, every tree the editor produces
\* has the same property.
LevelEqualsDepth == \A tree \in AllTrees : LevelIsDepth(tree)

\* a Backspace or Delete of part_002 that merged two items, and the place in
\* visual order of the item that was merged away
IsMerge ==
    \/ IsBackspaceMerge /\ last.calls # <<>>
    \/ IsDeleteMerge /\ last.calls # <<>>

MergedPos == IF last.op = "Backspace" THEN last.pos ELSE last.pos + 1

\* C37: a merge (Backspace into the previous item, Delete of the next item)
\* leaves the pre-order sequence of the surviving items as it was, apart
\* from the removal of the merged item.
MergeKeepsVisualOrder ==
    IsMerge =>
        PreOrderIds(ResultOf(last)) = RemoveIndex(PreOrderIds(last.pre), MergedPos)

\* C38: a set() with a value structurally different from present makes that
\* value the present, whenever it is issued, also between an undo() or a
\* redo() and the timeout that clears isUndoRedoRef.
NoUserEditDropped == LastSetDiffers => hist.present = last.arg

\* C39: when a pruning timer deletes its item, the document it hands on is
\* the current document without that item: what was edited or deleted
\* elsewhere while the timer was pending is kept.
PruneAppliesToCurrentDocument ==
    IsPrune => ResultOf(last) = DeleteItemV(DocumentAtPrune, last.id)

\* C40: while the save status is 'saved' no save waits in the debounce timer
\* and none is in flight, and the content persistence holds for the note
\* is the latest local content.
SavedMeansPersisted ==
    home.saveStatus = "saved"
    => /\ ~home.saveTimeout.set
       /\ home.inFlight = {}
       /\ storage.dailyNotes[NoteProp.date].content = hist.present

====
